---- MODULE Spec2Model ----
(***************************************************************************)
(* A model of dlls/x11drv/window.c: the X11 driver's window peers.  Every  *)
(* logical window (WND) owns a whole window, a client window and possibly  *)
(* an icon window on the X server; the driver keeps their geometry, their  *)
(* mapping state and their window-manager hints in step with the WND.      *)
(*                                                                         *)
(* Style masks are sets of flag names; WS_CAPTION is the two-bit mask      *)
(* WS_BORDER|WS_DLGFRAME, so "(style & WS_CAPTION) == WS_CAPTION" is       *)
(* WS_CAPTION \subseteq style.  Handles and X ids are naturals, 0 is NULL. *)
(***************************************************************************)
EXTENDS Integers, Sequences, FiniteSets, TLC

VARIABLES
    managed_mode,   \* the process-wide "Managed" option
    root_window,    \* the X window the desktop maps onto
    wnd,            \* hwnd -> WND (the logical window, owned by USER)
    cls,            \* class id -> class data (GCL_HICON, GCL_HICONSM)
    children,       \* hwnd -> its linked children, first sibling first
    data,           \* hwnd -> x11drv_win_data (pDriverData), NoData if NULL
    xwin,           \* X id -> the X server's window
    ctx,            \* X id -> the hwnd saved for it and the context it was saved under
    gdi,            \* the live GDI bitmap handles
    atoms,          \* the process-wide atoms set up by create_desktop
    calls,          \* the last driver entry point, then the calls it made, in order
    ret,            \* what the last driver entry point returned, as the int it is in C
    fn,             \* the argument record of the helper functions under check
    profile         \* the sets the environment draws its inputs from in this run

vars == <<managed_mode, root_window, wnd, cls, children, data, xwin, ctx, gdi, atoms, calls, ret, fn, profile>>

----------------------------------------------------------------------------
(* Bounds of the model *)

\* window coordinates of the helper-function checks range over -1..CoordMax
CoordMax == 4

Coords == (0 - 1)..CoordMax

\* the z-order checks run on up to MaxSiblings windows under the desktop
MaxSiblings == 3

\* how many times XUniqueContext is called at most
MaxContexts == 2

----------------------------------------------------------------------------
(* Rectangles *)

MkRect(l, t, r, b) == [left |-> l, top |-> t, right |-> r, bottom |-> b]

ZeroRect == MkRect(0, 0, 0, 0)

RectWidth(rc) == rc.right - rc.left

RectHeight(rc) == rc.bottom - rc.top

IsRectEmpty(rc) == rc.left >= rc.right \/ rc.top >= rc.bottom

OffsetRect(rc, dx, dy) ==
    MkRect(rc.left + dx, rc.top + dy, rc.right + dx, rc.bottom + dy)

Max(a, b) == IF a >= b THEN a ELSE b

----------------------------------------------------------------------------
(* Style bits *)

WS_CAPTION == {"WS_BORDER", "WS_DLGFRAME"}

HAS_DLGFRAME(style, exStyle) ==
    \/ "WS_EX_DLGMODALFRAME" \in exStyle
    \/ ("WS_DLGFRAME" \in style /\ "WS_THICKFRAME" \notin style)

DesktopHwnd == 1

DefaultRootWindow == 1

DesktopModeRoot == 2

----------------------------------------------------------------------------
(* The non-client metrics of USER: AdjustWindowRectEx grows a client       *)
(* rectangle by the frame and the caption the style asks for.              *)

NCFrame(style, exStyle) ==
    IF "WS_THICKFRAME" \in style THEN 2
    ELSE IF "WS_DLGFRAME" \in style \/ "WS_EX_DLGMODALFRAME" \in exStyle THEN 1
    ELSE IF "WS_BORDER" \in style THEN 1
    ELSE 0

NCCaption(style) == IF WS_CAPTION \subseteq style THEN 1 ELSE 0

AdjustWindowRectEx(rc, style, exStyle) ==
    MkRect(rc.left - NCFrame(style, exStyle),
           rc.top - NCFrame(style, exStyle) - NCCaption(style),
           rc.right + NCFrame(style, exStyle),
           rc.bottom + NCFrame(style, exStyle))

----------------------------------------------------------------------------
(* Classification *)

is_window_managed_no_child_test(win) ==
    IF ~managed_mode THEN FALSE
    ELSE IF "WS_EX_TRAYWINDOW" \in win.dwExStyle THEN TRUE
    ELSE IF "WS_EX_TOOLWINDOW" \in win.dwExStyle THEN FALSE
    ELSE IF WS_CAPTION \subseteq win.dwStyle THEN TRUE
    ELSE IF "WS_THICKFRAME" \in win.dwStyle THEN TRUE
    ELSE FALSE

is_window_managed_no_tool_test(win) ==
    IF ~managed_mode THEN FALSE
    ELSE IF "WS_EX_TRAYWINDOW" \in win.dwExStyle THEN TRUE
    ELSE IF "WS_CHILD" \in win.dwStyle THEN FALSE
    ELSE IF WS_CAPTION \subseteq win.dwStyle THEN TRUE
    ELSE IF "WS_THICKFRAME" \in win.dwStyle THEN TRUE
    ELSE FALSE

is_window_managed(win) ==
    IF ~managed_mode THEN FALSE
    ELSE IF "WS_EX_TRAYWINDOW" \in win.dwExStyle THEN TRUE
    ELSE IF "WS_CHILD" \in win.dwStyle THEN FALSE
    ELSE IF "WS_EX_TOOLWINDOW" \in win.dwExStyle THEN FALSE
    ELSE IF WS_CAPTION \subseteq win.dwStyle THEN TRUE
    ELSE IF "WS_THICKFRAME" \in win.dwStyle THEN TRUE
    ELSE FALSE

is_window_top_level(win) ==
    root_window = DefaultRootWindow /\ win.parent = DesktopHwnd

BaseEventMask ==
    {"ExposureMask", "KeyPressMask", "KeyReleaseMask", "PointerMotionMask",
     "ButtonPressMask", "ButtonReleaseMask"}

\* The attribute set of a whole window and the managed bit it decides:
\* [managed, attr]; the caller stores managed in the WND's extended style.
get_window_attributes(win) ==
    LET is_top_level == is_window_top_level(win)
        managed == is_top_level /\ is_window_managed(win)
    IN  [managed |-> managed,
         attr |-> [override_redirect |-> ~managed,
                   save_under |-> ("CS_SAVEBITS" \in win.clsStyle),
                   cursor |-> is_top_level,
                   event_mask |-> IF is_top_level
                                  THEN BaseEventMask \cup {"StructureNotifyMask",
                                           "FocusChangeMask", "KeymapStateMask"}
                                  ELSE BaseEventMask]]

SetManagedBit(exStyle, managed) ==
    IF managed THEN exStyle \cup {"WS_EX_MANAGED"}
    ELSE exStyle \ {"WS_EX_MANAGED"}

----------------------------------------------------------------------------
(* Coordinate translation *)

\* the two closing lines of both converters: a degenerate result gets a
\* span of one by moving the far edge
ClampDegenerate(rc) ==
    LET r1 == IF rc.top >= rc.bottom THEN [rc EXCEPT !.bottom = rc.top + 1] ELSE rc
    IN  IF r1.left >= r1.right THEN [r1 EXCEPT !.right = r1.left + 1] ELSE r1

\* window_to_X_rect before its clamp: the rectangle minus the frame
WindowToXUnclamped(win, rect) ==
    LET rc == AdjustWindowRectEx(ZeroRect, win.dwStyle, win.dwExStyle)
    IN  MkRect(rect.left - rc.left, rect.top - rc.top,
               rect.right - rc.right, rect.bottom - rc.bottom)

X11DRV_window_to_X_rect_sign_slip(win, rect) ==
    IF "WS_EX_MANAGED" \notin win.dwExStyle THEN rect
    ELSE IF IsRectEmpty(rect) THEN rect
    ELSE LET rc == AdjustWindowRectEx(ZeroRect, win.dwStyle, win.dwExStyle)
         IN  ClampDegenerate(MkRect(rect.left - rc.left, rect.top - rc.top,
                                    rect.right - rc.left, rect.bottom - rc.bottom))

X11DRV_window_to_X_rect(win, rect) ==
    IF "WS_EX_MANAGED" \notin win.dwExStyle THEN rect
    ELSE IF IsRectEmpty(rect) THEN rect
    ELSE ClampDegenerate(WindowToXUnclamped(win, rect))

X11DRV_X_to_window_rect_no_empty_test(win, rect) ==
    IF "WS_EX_MANAGED" \notin win.dwExStyle THEN rect
    ELSE ClampDegenerate(AdjustWindowRectEx(rect, win.dwStyle, win.dwExStyle))

X11DRV_X_to_window_rect(win, rect) ==
    IF "WS_EX_MANAGED" \notin win.dwExStyle THEN rect
    ELSE IF IsRectEmpty(rect) THEN rect
    ELSE ClampDegenerate(AdjustWindowRectEx(rect, win.dwStyle, win.dwExStyle))

----------------------------------------------------------------------------
(* Change sets *)

\* the fields of an XWindowChanges that the mask does not name are never
\* read; they are 0 here
NoChanges ==
    [mask |-> {}, x |-> 0, y |-> 0, width |-> 0, height |-> 0,
     sibling |-> 0, stack_mode |-> "None"]

ZeroToOne(v) == IF v = 0 THEN 1 ELSE v

\* the value mask bits of XConfigureWindow, as X.h numbers them
MaskBit(flag) ==
    CASE flag = "CWX" -> 1
      [] flag = "CWY" -> 2
      [] flag = "CWWidth" -> 4
      [] flag = "CWHeight" -> 8
      [] flag = "CWSibling" -> 32
      [] flag = "CWStackMode" -> 64

RECURSIVE MaskValue(_)
\* the int a change-set mask is returned as
MaskValue(mask) ==
    IF mask = {} THEN 0
    ELSE MaskBit(CHOOSE f \in mask : TRUE)
         + MaskValue(mask \ {CHOOSE f \in mask : TRUE})

get_window_changes(old, new) ==
    LET c1 == IF RectWidth(old) # RectWidth(new)
              THEN [NoChanges EXCEPT !.width = ZeroToOne(RectWidth(new)),
                                     !.mask = {"CWWidth"}]
              ELSE NoChanges
        c2 == IF RectHeight(old) # RectHeight(new)
              THEN [c1 EXCEPT !.height = ZeroToOne(RectHeight(new)),
                              !.mask = @ \cup {"CWHeight"}]
              ELSE c1
        c3 == IF old.left # new.left
              THEN [c2 EXCEPT !.x = new.left, !.mask = @ \cup {"CWX"}]
              ELSE c2
    IN  IF old.top # new.top
        THEN [c3 EXCEPT !.y = new.top, !.mask = @ \cup {"CWY"}]
        ELSE c3

----------------------------------------------------------------------------
(* The logical windows, the driver data and the X server *)

\* window handles: the desktop, then the windows of the application
Hwnds == 1..(MaxSiblings + 1)

\* 1 and 2 are the two root windows: the display's and a desktop window's
Xids == 3..(3 * Cardinality(Hwnds) + 2)

Bitmaps == 1..(2 * Cardinality(Hwnds) + 2)

Classes == {1, 2}

NoWnd ==
    [status |-> "none", parent |-> 0, owner |-> 0, dwStyle |-> {}, dwExStyle |-> {},
     class |-> 1, clsStyle |-> {}, rectWindow |-> ZeroRect, rectClient |-> ZeroRect]

NoData ==
    [valid |-> FALSE, whole_window |-> 0, client_window |-> 0, icon_window |-> 0,
     whole_rect |-> ZeroRect, client_rect |-> ZeroRect,
     hWMIconBitmap |-> 0, hWMIconMask |-> 0]

NoAttr ==
    [override_redirect |-> FALSE, save_under |-> FALSE, cursor |-> FALSE,
     event_mask |-> {}]

NoSizeHints ==
    [flags |-> {}, x |-> 0, y |-> 0, win_gravity |-> "None",
     min_width |-> 0, min_height |-> 0, max_width |-> 0, max_height |-> 0]

\* a zeroed XWMHints, as XAllocWMHints returns it
NoWMHints ==
    [flags |-> {}, input |-> FALSE, initial_state |-> "WithdrawnState",
     icon_pixmap |-> 0, icon_mask |-> 0, icon_window |-> 0,
     icon_x |-> 0, icon_y |-> 0, window_group |-> 0]

NoMwmHints == [set |-> FALSE, functions |-> {}, decorations |-> {}]

NoXWin ==
    [exists |-> FALSE, parent |-> 0, mapped |-> FALSE,
     x |-> 0, y |-> 0, width |-> 0, height |-> 0, attr |-> NoAttr,
     protocols |-> {}, class_hint |-> FALSE, transient_for |-> 0,
     size_hints |-> NoSizeHints, wm_hints |-> NoWMHints,
     mwm_hints |-> NoMwmHints, dock |-> FALSE, tray_for |-> 0,
     name |-> 0, icon_name |-> 0, net_wm_name |-> 0, focus |-> FALSE]

\* no XSaveContext entry
NoContext == [hwnd |-> 0, context |-> 0]

NoAtoms ==
    [inits |-> 0, winContext |-> 0, wmDeleteWindow |-> FALSE, wmTakeFocus |-> FALSE,
     mwmHints |-> FALSE, kwmDockWindow |-> FALSE, kdeTray |-> FALSE]

\* the program state the driver functions read and write
State ==
    [wnd |-> wnd, cls |-> cls, children |-> children, data |-> data, xwin |-> xwin,
     ctx |-> ctx, gdi |-> gdi, atoms |-> atoms, calls |-> calls, ret |-> ret,
     hints |-> NoWMHints]

\* one record of the call log
XCall(name, w) ==
    [call |-> name, win |-> w, changes |-> NoChanges, arg |-> 0, flag |-> FALSE]

Log(s, c) == [s EXCEPT !.calls = Append(@, c)]

wine_tsx11_lock(s) == Log(s, XCall("wine_tsx11_lock", 0))

wine_tsx11_unlock(s) == Log(s, XCall("wine_tsx11_unlock", 0))

XSync(s) == Log(s, XCall("XSync", 0))

\* HeapAlloc( GetProcessHeap(), ... ); ok: whether it hands out memory
HeapAlloc(s, ok) == Log(s, [XCall("HeapAlloc", 0) EXCEPT !.flag = ok])

HeapFree(s) == Log(s, XCall("HeapFree", 0))

Min(S) == CHOOSE m \in S : \A n \in S : m <= n

\* the id XCreateWindow hands out: an id no live window has. The ids are
\* opaque to the driver; they are drawn from the block of three ids of the
\* logical window the call is made for, and from later blocks once it is used up
FreshXid(s, h) == Min({i \in Xids : i >= 3 * h /\ ~s.xwin[i].exists})

XCreateWindow(s, id, parent, x, y, w, h, attr) ==
    LET c == [XCall("XCreateWindow", id) EXCEPT
                 !.arg = parent,
                 !.changes = [NoChanges EXCEPT !.x = x, !.y = y, !.width = w, !.height = h]]
    IN  IF id = 0 THEN Log(s, c)
        ELSE Log([s EXCEPT !.xwin[id] = [NoXWin EXCEPT !.exists = TRUE, !.parent = parent,
                                            !.x = x, !.y = y, !.width = w, !.height = h,
                                            !.attr = attr]], c)

RECURSIVE IsXDescendant(_, _, _)
\* id lies in the X subtree of top
IsXDescendant(xw, id, top) ==
    IF id = top THEN TRUE
    ELSE IF id \notin Xids \/ ~xw[id].exists THEN FALSE
    ELSE IF xw[id].parent = id THEN FALSE
    ELSE IsXDescendant(xw, xw[id].parent, top)

RECURSIVE IsViewable(_, _)
\* map_state == IsViewable: the window and all its ancestors are mapped
IsViewable(xw, id) ==
    IF id \notin Xids THEN id # 0
    ELSE xw[id].exists /\ xw[id].mapped /\ xw[id].parent # id /\ IsViewable(xw, xw[id].parent)

RECURSIVE FocusAfter(_, _, _)
\* RevertToParent: where the focus held by window id goes once the windows
\* are as in new; old gives the parent of a window that no longer exists
FocusAfter(old, new, id) ==
    IF id \notin Xids THEN id
    ELSE IF IsViewable(new, id) THEN id
    ELSE IF old[id].parent = id THEN 0
    ELSE FocusAfter(old, new, old[id].parent)

\* the server moves the input focus off a window that stops being viewable
RevertFocus(old, new) ==
    [i \in Xids |->
        [new[i] EXCEPT !.focus = \E j \in Xids : old[j].focus /\ FocusAfter(old, new, j) = i]]

\* XDestroyWindow destroys the window and the windows inside it
XDestroyWindow(s, id) ==
    Log([s EXCEPT !.xwin = RevertFocus(s.xwin,
                               [i \in Xids |->
                                   IF s.xwin[i].exists /\ IsXDescendant(s.xwin, i, id)
                                   THEN NoXWin ELSE s.xwin[i]])],
        XCall("XDestroyWindow", id))

XSaveContext(s, id, hwnd) ==
    Log(IF id \in Xids
        THEN [s EXCEPT !.ctx[id] = [hwnd |-> hwnd, context |-> s.atoms.winContext]]
        ELSE s,
        [XCall("XSaveContext", id) EXCEPT !.arg = hwnd])

XDeleteContext(s, id) ==
    Log(IF id \in Xids /\ s.ctx[id].context = s.atoms.winContext
        THEN [s EXCEPT !.ctx[id] = NoContext]
        ELSE s,
        XCall("XDeleteContext", id))

\* XFindContext( display, win, winContext, &hwnd ): 0 if nothing is saved for
\* the window under the current context
XFindContext(c, a, id) ==
    IF id \in Xids /\ c[id].hwnd # 0 /\ c[id].context = a.winContext THEN c[id].hwnd ELSE 0

XMapWindow(s, id) ==
    Log(IF id \in Xids /\ s.xwin[id].exists THEN [s EXCEPT !.xwin[id].mapped = TRUE] ELSE s,
        XCall("XMapWindow", id))

XUnmapWindow(s, id) ==
    Log(IF id \in Xids /\ s.xwin[id].exists
        THEN [s EXCEPT !.xwin = RevertFocus(s.xwin, [s.xwin EXCEPT ![id].mapped = FALSE])]
        ELSE s,
        XCall("XUnmapWindow", id))

XGetWindowAttributes(s, id) == Log(s, XCall("XGetWindowAttributes", id))

XSetInputFocus(s, id) ==
    Log([s EXCEPT !.xwin = [i \in Xids |-> [s.xwin[i] EXCEPT !.focus = (i = id)]]],
        XCall("XSetInputFocus", id))

\* XStoreName, XSetIconName and XChangeProperty( _NET_WM_NAME ): the window
\* takes the text in the named property
XSetText(s, name, id, prop, text) ==
    Log(IF id \in Xids /\ s.xwin[id].exists THEN [s EXCEPT !.xwin[id][prop] = text] ELSE s,
        [XCall(name, id) EXCEPT !.arg = text])

\* the atoms the driver interns; the log names an atom by its place here
AtomNames ==
    <<"WM_PROTOCOLS", "WM_DELETE_WINDOW", "DndProtocol", "DndSelection", "WM_CHANGE_STATE",
      "_MOTIF_WM_HINTS", "KWM_DOCKWINDOW", "_KDE_NET_WM_SYSTEM_TRAY_WINDOW_FOR",
      "_NET_WM_NAME", "UTF8_STRING">>

XInternAtom(s, atom) ==
    Log(s, [XCall("XInternAtom", 0) EXCEPT
               !.arg = CHOOSE i \in DOMAIN AtomNames : AtomNames[i] = atom])

\* XConfigureWindow and XReconfigureWMWindow: the geometry the mask names is
\* what the request carries; the server window takes it
XConfigure(s, name, id, changes) ==
    LET old == s.xwin[id]
        new == [old EXCEPT
                  !.x = IF "CWX" \in changes.mask THEN changes.x ELSE @,
                  !.y = IF "CWY" \in changes.mask THEN changes.y ELSE @,
                  !.width = IF "CWWidth" \in changes.mask THEN changes.width ELSE @,
                  !.height = IF "CWHeight" \in changes.mask THEN changes.height ELSE @]
    IN  Log(IF id \in Xids /\ s.xwin[id].exists THEN [s EXCEPT !.xwin[id] = new] ELSE s,
            [XCall(name, id) EXCEPT !.changes = changes])

\* DeleteObject of GDI; the flag of the log record is its result, FALSE for a
\* handle that is not live
DeleteObject(s, hb) ==
    Log([s EXCEPT !.gdi = @ \ {hb}],
        [XCall("DeleteObject", 0) EXCEPT !.arg = hb, !.flag = hb \in s.gdi])

----------------------------------------------------------------------------
(* The icon window *)

\* GetSystemMetrics( SM_CXICON ) and GetSystemMetrics( SM_CYICON )
GetSystemMetrics(metric) == IF metric \in {"SM_CXICON", "SM_CYICON"} THEN 32 ELSE 0

create_icon_window(s, h) ==
    LET id == FreshXid(s, h)
        s1 == wine_tsx11_lock(s)
        s2 == XCreateWindow(s1, id, root_window, 0, 0,
                            GetSystemMetrics("SM_CXICON"), GetSystemMetrics("SM_CYICON"),
                            [NoAttr EXCEPT !.event_mask = BaseEventMask])
        s3 == XSaveContext([s2 EXCEPT !.data[h].icon_window = id], id, h)
    IN  wine_tsx11_unlock(s3)

destroy_icon_window(s, h) ==
    IF s.data[h].icon_window = 0 THEN s
    ELSE LET s1 == wine_tsx11_lock(s)
             s2 == XDeleteContext(s1, s.data[h].icon_window)
             s3 == XDestroyWindow(s2, s.data[h].icon_window)
         IN  wine_tsx11_unlock([s3 EXCEPT !.data[h].icon_window = 0])

IconFlags == {"IconPixmapHint", "IconMaskHint", "IconWindowHint"}

\* the bitmap handles that are free for the icon of window h: handles are
\* opaque, and each logical window draws from its own pair first
FreeBitmaps(s, h) == {b \in Bitmaps : b >= 2 * h - 1 /\ b \notin s.gdi}

\* GetIconInfo copies the icon's two bitmaps into fresh handles
GetIconInfo(s, h) ==
    [hbmMask |-> Min(FreeBitmaps(s, h)),
     hbmColor |-> Min(FreeBitmaps(s, h) \ {Min(FreeBitmaps(s, h))})]

\* the pixmap behind a bitmap handle carries the handle's number
X11DRV_BITMAP_Pixmap(hb) == hb

DeleteObjectIfSet(s, hb) == IF hb # 0 THEN DeleteObject(s, hb) ELSE s

FreeIconBitmaps_keep_handles(s, h) ==
    DeleteObjectIfSet(DeleteObjectIfSet(s, s.data[h].hWMIconBitmap), s.data[h].hWMIconMask)

\* the head of set_icon_hints: the bitmaps of the last round are deleted
FreeIconBitmaps(s, h) ==
    [DeleteObjectIfSet(DeleteObjectIfSet(s, s.data[h].hWMIconBitmap), s.data[h].hWMIconMask)
        EXCEPT !.data[h].hWMIconBitmap = 0, !.data[h].hWMIconMask = 0]

\* the branch of set_icon_hints for a window that is not managed
IconHintsNone(s, h) ==
    [destroy_icon_window(s, h) EXCEPT !.hints.flags = @ \ IconFlags]

IconHintsWindow_keep_pixmap(s, h) ==
    [s EXCEPT !.hints.icon_window = s.data[h].icon_window,
              !.hints.flags = @ \cup {"IconWindowHint"}]

\* the branch for a managed window whose class has no icon
IconHintsWindow(s, h) ==
    [s EXCEPT !.hints.icon_window = s.data[h].icon_window,
              !.hints.flags = (@ \ {"IconPixmapHint", "IconMaskHint"}) \cup {"IconWindowHint"}]

EnsureIconWindow(s, h) ==
    IF s.data[h].icon_window = 0 THEN create_icon_window(s, h) ELSE s

IconHintsPixmap_keep_window(s, h, ii) ==
    [s EXCEPT !.gdi = @ \cup {ii.hbmMask, ii.hbmColor},
              !.data[h].hWMIconBitmap = ii.hbmColor,
              !.data[h].hWMIconMask = ii.hbmMask,
              !.hints.icon_pixmap = X11DRV_BITMAP_Pixmap(ii.hbmColor),
              !.hints.icon_mask = X11DRV_BITMAP_Pixmap(ii.hbmMask),
              !.hints.flags = (@ \ {"IconWindowHint"}) \cup {"IconPixmapHint", "IconMaskHint"}]

\* the branch for a managed window whose class has an icon
IconHintsPixmap(s, h, ii) ==
    destroy_icon_window(
        [s EXCEPT !.gdi = @ \cup {ii.hbmMask, ii.hbmColor},
                  !.data[h].hWMIconBitmap = ii.hbmColor,
                  !.data[h].hWMIconMask = ii.hbmMask,
                  !.hints.icon_pixmap = X11DRV_BITMAP_Pixmap(ii.hbmColor),
                  !.hints.icon_mask = X11DRV_BITMAP_Pixmap(ii.hbmMask),
                  !.hints.flags = (@ \ {"IconWindowHint"})
                                     \cup {"IconPixmapHint", "IconMaskHint"}], h)

IconHintsBranch(s, h) ==
    IF "WS_EX_MANAGED" \notin s.wnd[h].dwExStyle THEN IconHintsNone(s, h)
    ELSE IF s.cls[s.wnd[h].class].hIcon = 0 THEN IconHintsWindow(EnsureIconWindow(s, h), h)
    ELSE IconHintsPixmap(s, h, GetIconInfo(s, h))

\* set_icon_hints works on s.hints, the XWMHints structure of its caller
set_icon_hints(s, h) == IconHintsBranch(FreeIconBitmaps(s, h), h)

----------------------------------------------------------------------------
(* Handle lookup *)

\* X11DRV_get_whole_window and X11DRV_get_client_window for a window of
\* this process: the handles kept in its driver data
X11DRV_get_whole_window(s, hwnd) ==
    IF hwnd \in Hwnds /\ s.wnd[hwnd].status # "none" THEN s.data[hwnd].whole_window ELSE 0

X11DRV_get_client_window(s, hwnd) ==
    IF hwnd \in Hwnds /\ s.wnd[hwnd].status # "none" THEN s.data[hwnd].client_window ELSE 0

is_client_window_mapped(s, h) ==
    "WS_MINIMIZE" \notin s.wnd[h].dwStyle /\ ~IsRectEmpty(s.data[h].client_rect)

----------------------------------------------------------------------------
(* Window-manager hints *)

SizeHintsOf_window_rect(win, whole_rect) ==
    IF HAS_DLGFRAME(win.dwStyle, win.dwExStyle)
    THEN [flags |-> {"PWinGravity", "PPosition", "PMinSize", "PMaxSize"},
          x |-> whole_rect.left, y |-> whole_rect.top, win_gravity |-> "StaticGravity",
          min_width |-> win.rectWindow.right - win.rectWindow.left,
          min_height |-> win.rectWindow.bottom - win.rectWindow.top,
          max_width |-> win.rectWindow.right - win.rectWindow.left,
          max_height |-> win.rectWindow.bottom - win.rectWindow.top]
    ELSE [NoSizeHints EXCEPT !.flags = {"PWinGravity", "PPosition"},
                             !.x = whole_rect.left, !.y = whole_rect.top,
                             !.win_gravity = "StaticGravity"]

\* the XSizeHints set_size_hints fills in
SizeHintsOf(win, whole_rect) ==
    IF HAS_DLGFRAME(win.dwStyle, win.dwExStyle)
    THEN [flags |-> {"PWinGravity", "PPosition", "PMinSize", "PMaxSize"},
          x |-> whole_rect.left, y |-> whole_rect.top, win_gravity |-> "StaticGravity",
          min_width |-> whole_rect.right - whole_rect.left,
          min_height |-> whole_rect.bottom - whole_rect.top,
          max_width |-> whole_rect.right - whole_rect.left,
          max_height |-> whole_rect.bottom - whole_rect.top]
    ELSE [NoSizeHints EXCEPT !.flags = {"PWinGravity", "PPosition"},
                             !.x = whole_rect.left, !.y = whole_rect.top,
                             !.win_gravity = "StaticGravity"]

\* a property written on window id: field of the server's record, value
SetXProp(s, name, id, field, value) ==
    Log(IF id \in Xids /\ s.xwin[id].exists
        THEN [s EXCEPT !.xwin[id] = (field :> value) @@ @] ELSE s,
        XCall(name, id))

XSetWMNormalHints(s, id, hints) ==
    SetXProp(s, "XSetWMNormalHints", id, "size_hints", hints)

set_size_hints(s, h) ==
    XSetWMNormalHints(s, s.data[h].whole_window, SizeHintsOf(s.wnd[h], s.data[h].whole_rect))

MwmFunctions(style) ==
    (IF WS_CAPTION \subseteq style THEN {"MWM_FUNC_MOVE"} ELSE {})
    \cup (IF "WS_THICKFRAME" \in style THEN {"MWM_FUNC_MOVE", "MWM_FUNC_RESIZE"} ELSE {})
    \cup (IF "WS_MINIMIZE" \in style THEN {"MWM_FUNC_MINIMIZE"} ELSE {})
    \cup (IF "WS_MAXIMIZE" \in style THEN {"MWM_FUNC_MAXIMIZE"} ELSE {})
    \cup (IF "WS_SYSMENU" \in style THEN {"MWM_FUNC_CLOSE"} ELSE {})

MwmDecorations_thick_first(style, exStyle) ==
    (IF WS_CAPTION \subseteq style THEN {"MWM_DECOR_TITLE"} ELSE {})
    \cup (IF "WS_THICKFRAME" \in style THEN {"MWM_DECOR_BORDER", "MWM_DECOR_RESIZEH"}
          ELSE IF "WS_EX_DLGMODALFRAME" \in exStyle THEN {"MWM_DECOR_BORDER"}
          ELSE IF style \cap WS_CAPTION = {"WS_DLGFRAME"} THEN {"MWM_DECOR_BORDER"}
          ELSE IF "WS_BORDER" \in style THEN {"MWM_DECOR_BORDER"}
          ELSE IF style \cap {"WS_CHILD", "WS_POPUP"} = {} THEN {"MWM_DECOR_BORDER"}
          ELSE {})
    \cup (IF "WS_SYSMENU" \in style THEN {"MWM_DECOR_MENU"} ELSE {})
    \cup (IF "WS_MINIMIZE" \in style THEN {"MWM_DECOR_MINIMIZE"} ELSE {})
    \cup (IF "WS_MAXIMIZE" \in style THEN {"MWM_DECOR_MAXIMIZE"} ELSE {})

MwmDecorations(style, exStyle) ==
    (IF WS_CAPTION \subseteq style THEN {"MWM_DECOR_TITLE"} ELSE {})
    \cup (IF "WS_EX_DLGMODALFRAME" \in exStyle THEN {"MWM_DECOR_BORDER"}
          ELSE IF "WS_THICKFRAME" \in style THEN {"MWM_DECOR_BORDER", "MWM_DECOR_RESIZEH"}
          ELSE IF style \cap WS_CAPTION = {"WS_DLGFRAME"} THEN {"MWM_DECOR_BORDER"}
          ELSE IF "WS_BORDER" \in style THEN {"MWM_DECOR_BORDER"}
          ELSE IF style \cap {"WS_CHILD", "WS_POPUP"} = {} THEN {"MWM_DECOR_BORDER"}
          ELSE {})
    \cup (IF "WS_SYSMENU" \in style THEN {"MWM_DECOR_MENU"} ELSE {})
    \cup (IF "WS_MINIMIZE" \in style THEN {"MWM_DECOR_MINIMIZE"} ELSE {})
    \cup (IF "WS_MAXIMIZE" \in style THEN {"MWM_DECOR_MAXIMIZE"} ELSE {})

WMProtocols(s) ==
    {"WM_DELETE_WINDOW"} \cup (IF s.atoms.wmTakeFocus THEN {"WM_TAKE_FOCUS"} ELSE {})

\* the transient-for block of set_wm_hints
SetTransientFor(s, h) ==
    IF s.wnd[h].owner # 0
    THEN SetXProp(s, "XSetTransientForHint", s.data[h].whole_window, "transient_for",
                  X11DRV_get_whole_window(s, s.wnd[h].owner))
    ELSE s

GroupLeader_self(s, h) == s.data[h].whole_window

GroupLeader(s, h) ==
    IF s.wnd[h].owner # 0 THEN X11DRV_get_whole_window(s, s.wnd[h].owner)
    ELSE s.data[h].whole_window

\* the systray block of set_wm_hints
SetDockWindow(s, h) ==
    IF "WS_EX_TRAYWINDOW" \in s.wnd[h].dwExStyle /\ s.atoms.kwmDockWindow
    THEN SetXProp(s, "XChangeProperty_KWM_DOCKWINDOW", s.data[h].whole_window, "dock", TRUE)
    ELSE s

SetTrayWindowFor(s, h) ==
    IF "WS_EX_TRAYWINDOW" \in s.wnd[h].dwExStyle /\ s.atoms.kdeTray
    THEN SetXProp(s, "XChangeProperty_KDE_TRAY", s.data[h].whole_window, "tray_for",
                  s.data[h].whole_window)
    ELSE s

\* the Motif block of set_wm_hints
SetMwmHints(s, h) ==
    IF s.atoms.mwmHints
    THEN SetXProp(s, "XChangeProperty_MWM_HINTS", s.data[h].whole_window, "mwm_hints",
                  [set |-> TRUE, functions |-> MwmFunctions(s.wnd[h].dwStyle),
                   decorations |-> MwmDecorations(s.wnd[h].dwStyle, s.wnd[h].dwExStyle)])
    ELSE s

\* XSetWMHints of the caller's structure s.hints
XSetWMHints(s, id) == SetXProp(s, "XSetWMHints", id, "wm_hints", s.hints)

\* XGetWMHints, or XAllocWMHints if the window has none: s.hints
XGetWMHints(s, id) ==
    Log([s EXCEPT !.hints = IF id \in Xids /\ s.xwin[id].exists THEN s.xwin[id].wm_hints
                            ELSE NoWMHints],
        XCall("XGetWMHints", id))

set_wm_hints(s, h) ==
    LET w == s.data[h].whole_window
        s1 == SetXProp(wine_tsx11_lock(s), "XSetWMProtocols", w, "protocols", WMProtocols(s))
        s2 == SetXProp(s1, "XSetClassHint", w, "class_hint", TRUE)
        s3 == set_size_hints(SetTransientFor(s2, h), h)
        s4 == wine_tsx11_unlock(SetMwmHints(SetTrayWindowFor(SetDockWindow(s3, h), h), h))
        s5 == set_icon_hints(
                  [s4 EXCEPT !.hints = [NoWMHints EXCEPT
                      !.flags = {"InputHint", "StateHint", "WindowGroupHint"},
                      !.input = ~s.atoms.wmTakeFocus]], h)
        s6 == [s5 EXCEPT !.hints.initial_state =
                            IF "WS_MINIMIZE" \in s.wnd[h].dwStyle
                            THEN "IconicState" ELSE "NormalState",
                         !.hints.window_group = GroupLeader(s, h)]
    IN  wine_tsx11_unlock(XSetWMHints(wine_tsx11_lock(s6), w))

IconicClientWindow_map_always(s, h) ==
    IF "WS_MINIMIZE" \in s.wnd[h].dwStyle THEN XUnmapWindow(s, s.data[h].client_window)
    ELSE XMapWindow(s, s.data[h].client_window)

\* the first block of X11DRV_set_iconic_state: the client window
IconicClientWindow(s, h) ==
    IF "WS_MINIMIZE" \in s.wnd[h].dwStyle THEN XUnmapWindow(s, s.data[h].client_window)
    ELSE IF is_client_window_mapped(s, h) THEN XMapWindow(s, s.data[h].client_window)
    ELSE s

\* the last block: the whole window of a visible window
IconicWholeWindow(s, h) ==
    IF "WS_VISIBLE" \notin s.wnd[h].dwStyle THEN s
    ELSE IF "WS_MINIMIZE" \in s.wnd[h].dwStyle
    THEN Log(s, XCall("XIconifyWindow", s.data[h].whole_window))
    ELSE IF ~IsRectEmpty(s.wnd[h].rectWindow) THEN XMapWindow(s, s.data[h].whole_window)
    ELSE s

X11DRV_set_iconic_state(s, h) ==
    LET w == s.data[h].whole_window
        s1 == XGetWMHints(IconicClientWindow(wine_tsx11_lock(s), h), w)
        s2 == [s1 EXCEPT !.hints.flags = @ \cup {"StateHint", "IconPositionHint"},
                         !.hints.initial_state =
                            IF "WS_MINIMIZE" \in s.wnd[h].dwStyle
                            THEN "IconicState" ELSE "NormalState",
                         !.hints.icon_x = s.wnd[h].rectWindow.left,
                         !.hints.icon_y = s.wnd[h].rectWindow.top]
    IN  wine_tsx11_unlock(IconicWholeWindow(XSetWMHints(s2, w), h))

----------------------------------------------------------------------------
(* Geometry synchronisation *)

\* index of hwnd in a sibling list, 0 if it is not linked
RECURSIVE IndexOf(_, _, _)
IndexOf(seq, h, i) ==
    IF i > Len(seq) THEN 0
    ELSE IF seq[i] = h THEN i
    ELSE IndexOf(seq, h, i + 1)

\* GetWindow( hwnd, GW_HWNDPREV ): the sibling linked just before hwnd
GetPrevSibling(s, h) ==
    IF IndexOf(s.children[s.wnd[h].parent], h, 1) <= 1 THEN 0
    ELSE s.children[s.wnd[h].parent][IndexOf(s.children[s.wnd[h].parent], h, 1) - 1]

PrevVisible_no_skip(s, prev) == prev

\* the loop of the z-order branch: back over the siblings that are not visible
RECURSIVE PrevVisible(_, _)
PrevVisible(s, prev) ==
    IF prev # 0 /\ "WS_VISIBLE" \notin s.wnd[prev].dwStyle
    THEN PrevVisible(s, GetPrevSibling(s, prev))
    ELSE prev

\* the z-order part of the change set, prev being the sibling the loop ends on
StackAfter(s, prev, changes) ==
    IF prev = 0
    THEN [changes EXCEPT !.stack_mode = "Above", !.mask = @ \cup {"CWStackMode"}]
    ELSE [changes EXCEPT !.stack_mode = "Below",
                         !.sibling = X11DRV_get_whole_window(s, prev),
                         !.mask = @ \cup {"CWStackMode", "CWSibling"}]

ZOrderChanges(s, h, changes) == StackAfter(s, PrevVisible(s, GetPrevSibling(s, h)), changes)

WholeWindowChanges_no_zorder(s, h, whole_rect, zorder) ==
    get_window_changes(s.data[h].whole_rect, whole_rect)

\* the change set of X11DRV_sync_whole_window_position
WholeWindowChanges(s, h, whole_rect, zorder) ==
    IF zorder THEN ZOrderChanges(s, h, get_window_changes(s.data[h].whole_rect, whole_rect))
    ELSE get_window_changes(s.data[h].whole_rect, whole_rect)

SizeHintsIfResized(s, h, changes) ==
    IF changes.mask \cap {"CWWidth", "CWHeight"} # {} THEN set_size_hints(s, h) ELSE s

PushWholeChanges_hints_last(s, h, changes) ==
    IF changes.mask = {} THEN [s EXCEPT !.ret = 0]
    ELSE IF is_window_top_level(s.wnd[h])
    THEN [wine_tsx11_unlock(SizeHintsIfResized(
                                XConfigure(XSync(wine_tsx11_lock(s)), "XReconfigureWMWindow",
                                           s.data[h].whole_window, changes), h, changes))
             EXCEPT !.ret = MaskValue(changes.mask)]
    ELSE [wine_tsx11_unlock(XConfigure(XSync(wine_tsx11_lock(s)),
                                       "XConfigureWindow", s.data[h].whole_window, changes))
             EXCEPT !.ret = MaskValue(changes.mask)]

\* the "if (mask)" block of X11DRV_sync_whole_window_position
PushWholeChanges(s, h, changes) ==
    IF changes.mask = {} THEN [s EXCEPT !.ret = 0]
    ELSE IF is_window_top_level(s.wnd[h])
    THEN [wine_tsx11_unlock(XConfigure(SizeHintsIfResized(XSync(wine_tsx11_lock(s)), h, changes),
                                       "XReconfigureWMWindow", s.data[h].whole_window, changes))
             EXCEPT !.ret = MaskValue(changes.mask)]
    ELSE [wine_tsx11_unlock(XConfigure(XSync(wine_tsx11_lock(s)),
                                       "XConfigureWindow", s.data[h].whole_window, changes))
             EXCEPT !.ret = MaskValue(changes.mask)]

SyncWholeRect_stale_rect(s, h, whole_rect, zorder) ==
    PushWholeChanges(s, h, WholeWindowChanges(s, h, whole_rect, zorder))

SyncWholeRect(s, h, whole_rect, zorder) ==
    PushWholeChanges([s EXCEPT !.data[h].whole_rect = whole_rect], h,
                     WholeWindowChanges(s, h, whole_rect, zorder))

X11DRV_sync_whole_window_position(s, h, zorder) ==
    SyncWholeRect(s, h, X11DRV_window_to_X_rect(s.wnd[h], s.wnd[h].rectWindow), zorder)

ClientUnmapIfHidden(s, h, was_mapped) ==
    IF was_mapped /\ ~is_client_window_mapped(s, h)
    THEN XUnmapWindow(s, s.data[h].client_window) ELSE s

ClientMapIfShown(s, h, was_mapped) ==
    IF ~was_mapped /\ is_client_window_mapped(s, h)
    THEN XMapWindow(s, s.data[h].client_window) ELSE s

PushClientChanges_map_first(s, h, changes, was_mapped) ==
    [wine_tsx11_unlock(
         ClientUnmapIfHidden(
             XConfigure(ClientMapIfShown(XSync(wine_tsx11_lock(s)), h, was_mapped),
                        "XConfigureWindow", s.data[h].client_window, changes),
             h, was_mapped))
        EXCEPT !.ret = MaskValue(changes.mask)]

\* the "if (mask)" block of X11DRV_sync_client_window_position, entered
\* with data->client_rect already replaced
PushClientChanges(s, h, changes, was_mapped) ==
    [wine_tsx11_unlock(
         ClientMapIfShown(
             XConfigure(ClientUnmapIfHidden(XSync(wine_tsx11_lock(s)), h, was_mapped),
                        "XConfigureWindow", s.data[h].client_window, changes),
             h, was_mapped))
        EXCEPT !.ret = MaskValue(changes.mask)]

SyncClientRect(s, h, client_rect, changes) ==
    IF changes.mask = {} THEN [s EXCEPT !.ret = 0]
    ELSE PushClientChanges([s EXCEPT !.data[h].client_rect = client_rect], h, changes,
                           is_client_window_mapped(s, h))

ClientRectInWhole(s, h) ==
    OffsetRect(s.wnd[h].rectClient, 0 - s.data[h].whole_rect.left, 0 - s.data[h].whole_rect.top)

X11DRV_sync_client_window_position(s, h) ==
    SyncClientRect(s, h, ClientRectInWhole(s, h),
                   get_window_changes(s.data[h].client_rect, ClientRectInWhole(s, h)))

X11DRV_register_window_early_unlock(s, h) ==
    XSaveContext(wine_tsx11_unlock(XSaveContext(wine_tsx11_lock(s), s.data[h].whole_window, h)),
                 s.data[h].client_window, h)

X11DRV_register_window(s, h) ==
    wine_tsx11_unlock(
        XSaveContext(XSaveContext(wine_tsx11_lock(s), s.data[h].whole_window, h),
                     s.data[h].client_window, h))

sync_window_style_keep_bit(s, h) ==
    wine_tsx11_unlock(
        SetXProp(wine_tsx11_lock(s),
                 "XChangeWindowAttributes", s.data[h].whole_window, "attr",
                 get_window_attributes(s.wnd[h]).attr))

sync_window_style(s, h) ==
    wine_tsx11_unlock(
        SetXProp([wine_tsx11_lock(s) EXCEPT !.wnd[h].dwExStyle =
                     SetManagedBit(@, get_window_attributes(s.wnd[h]).managed)],
                 "XChangeWindowAttributes", s.data[h].whole_window, "attr",
                 get_window_attributes(s.wnd[h]).attr))

----------------------------------------------------------------------------
(* Creation and destruction *)

\* WIN_LinkWindow / WIN_UnlinkWindow of USER: the sibling lists
Without(seq, h) == SelectSeq(seq, LAMBDA e : e # h)

WIN_UnlinkWindow(s, h) ==
    [s EXCEPT !.children = [p \in Hwnds |-> Without(s.children[p], h)]]

WIN_LinkWindow(s, h, parent, atTop) ==
    [WIN_UnlinkWindow(s, h) EXCEPT
        !.wnd[h].parent = parent,
        !.children[parent] = IF atTop THEN <<h>> \o @ ELSE Append(@, h)]

WIN_SetRectangles(s, h, rw, rc) ==
    [s EXCEPT !.wnd[h].rectWindow = rw, !.wnd[h].rectClient = rc]

\* the XInternAtom calls of create_desktop
InternAtoms(s) ==
    XInternAtom(XInternAtom(XInternAtom(XInternAtom(XInternAtom(XInternAtom(XInternAtom(XInternAtom(
        s, "WM_PROTOCOLS"), "WM_DELETE_WINDOW"), "DndProtocol"), "DndSelection"),
        "WM_CHANGE_STATE"), "_MOTIF_WM_HINTS"), "KWM_DOCKWINDOW"),
        "_KDE_NET_WM_SYSTEM_TRAY_WINDOW_FOR")

create_desktop(s, h) ==
    [wine_tsx11_unlock(
        [InternAtoms(wine_tsx11_lock(s)) EXCEPT
            !.atoms = [inits |-> @.inits + 1, winContext |-> @.inits + 1,
                       wmDeleteWindow |-> TRUE, wmTakeFocus |-> FALSE,
                       mwmHints |-> TRUE, kwmDockWindow |-> TRUE, kdeTray |-> TRUE]])
     EXCEPT !.data[h].whole_window = root_window,
            !.data[h].client_window = root_window,
            !.data[h].whole_rect = s.wnd[h].rectWindow,
            !.data[h].client_rect = s.wnd[h].rectWindow]

StackChildBelow_any_child(s, h) ==
    IF "WS_CHILD" \in s.wnd[h].dwStyle
    THEN XConfigure(s, "XConfigureWindow", s.data[h].whole_window,
                    [NoChanges EXCEPT !.stack_mode = "Below", !.mask = {"CWStackMode"}])
    ELSE s

\* "non-maximized child must be at bottom of Z order"
StackChildBelow(s, h) ==
    IF s.wnd[h].dwStyle \cap {"WS_CHILD", "WS_MAXIMIZE"} = {"WS_CHILD"}
    THEN XConfigure(s, "XConfigureWindow", s.data[h].whole_window,
                    [NoChanges EXCEPT !.stack_mode = "Below", !.mask = {"CWStackMode"}])
    ELSE s

SetWMHintsIf(s, h, is_top_level) == IF is_top_level THEN set_wm_hints(s, h) ELSE s

WholeWindowCreated_failure_keeps_lock(s, h, is_top_level) ==
    IF s.data[h].whole_window = 0 THEN s
    ELSE SetWMHintsIf(wine_tsx11_unlock(StackChildBelow(s, h)), h, is_top_level)

\* create_whole_window from its XCreateWindow on
WholeWindowCreated(s, h, is_top_level) ==
    IF s.data[h].whole_window = 0 THEN wine_tsx11_unlock(s)
    ELSE SetWMHintsIf(wine_tsx11_unlock(StackChildBelow(s, h)), h, is_top_level)

\* create_whole_window with its locals: the X rectangle, the attributes and
\* the managed bit, the id XCreateWindow returns
CreateWholeWindowAt(s, h, rect, a, id) ==
    WholeWindowCreated(
        XCreateWindow([wine_tsx11_lock(s) EXCEPT
                          !.wnd[h].dwExStyle = SetManagedBit(@, a.managed),
                          !.data[h].whole_rect = rect,
                          !.data[h].whole_window = id,
                          !.ret = id],
                      id, X11DRV_get_client_window(s, s.wnd[h].parent),
                      rect.left, rect.top,
                      ZeroToOne(rect.right - rect.left), ZeroToOne(rect.bottom - rect.top),
                      a.attr),
        h, is_window_top_level(s.wnd[h]))

\* xok: whether XCreateWindow hands out a window
create_whole_window(s, h, xok) ==
    CreateWholeWindowAt(s, h, X11DRV_window_to_X_rect(s.wnd[h], s.wnd[h].rectWindow),
                        get_window_attributes(s.wnd[h]),
                        IF xok THEN FreshXid(s, h) ELSE 0)

MapNewClient(s, h) ==
    IF s.data[h].client_window # 0 /\ is_client_window_mapped(s, h)
    THEN XMapWindow(s, s.data[h].client_window) ELSE s

CreateClientWindowAt(s, h, rect, id) ==
    wine_tsx11_unlock(
        MapNewClient(
            XCreateWindow(wine_tsx11_lock([s EXCEPT !.data[h].client_rect = rect,
                                                    !.data[h].client_window = id,
                                                    !.ret = id]),
                          id, s.data[h].whole_window, 0, 0,
                          Max(rect.right - rect.left, 1), Max(rect.bottom - rect.top, 1),
                          [NoAttr EXCEPT !.event_mask = BaseEventMask]),
            h))

create_client_window(s, h, xok) ==
    CreateClientWindowAt(s, h,
        OffsetRect(s.data[h].whole_rect, 0 - s.data[h].whole_rect.left,
                   0 - s.data[h].whole_rect.top),
        IF xok THEN FreshXid(s, h) ELSE 0)

DestroyXWindows_destroy_first(s, h) ==
    IF s.data[h].whole_window = 0 THEN s
    ELSE wine_tsx11_unlock(
             destroy_icon_window(
                 XDeleteContext(
                     XDeleteContext(
                         XDestroyWindow(XSync(wine_tsx11_lock(s)), s.data[h].whole_window),
                         s.data[h].whole_window),
                     s.data[h].client_window),
                 h))

\* the "if (data->whole_window)" block of X11DRV_DestroyWindow
DestroyXWindows(s, h) ==
    IF s.data[h].whole_window = 0 THEN s
    ELSE wine_tsx11_unlock(
             destroy_icon_window(
                 XDestroyWindow(
                     XDeleteContext(
                         XDeleteContext(XSync(wine_tsx11_lock(s)), s.data[h].whole_window),
                         s.data[h].client_window),
                     s.data[h].whole_window),
                 h))

X11DRV_DestroyWindow(s, h) ==
    IF ~s.data[h].valid THEN [s EXCEPT !.ret = 1]
    ELSE [HeapFree(DeleteObjectIfSet(
                       DeleteObjectIfSet(DestroyXWindows(s, h), s.data[h].hWMIconBitmap),
                       s.data[h].hWMIconMask))
             EXCEPT !.data[h] = NoData, !.ret = 1]

BigSize == [x |-> 65535, y |-> 65535]

NoTrack == [x |-> 0, y |-> 0]

SymDiff(a, b) == (a \ b) \cup (b \ a)

\* the client rectangle a WM_NCCALCSIZE handler answers for window rectangle rw
ClientRectOf(win, rw, choice) ==
    CASE choice = "same" -> rw
      [] choice = "inner" ->
            MkRect(rw.left + NCFrame(win.dwStyle, win.dwExStyle),
                   rw.top + NCFrame(win.dwStyle, win.dwExStyle) + NCCaption(win.dwStyle),
                   rw.right - NCFrame(win.dwStyle, win.dwExStyle),
                   rw.bottom - NCFrame(win.dwStyle, win.dwExStyle))
      [] choice = "empty" -> [rw EXCEPT !.bottom = rw.top]
      [] OTHER -> [rw EXCEPT !.right = rw.left - 1]

\* one axis of the WM_GETMINMAXINFO fix-up of cs->cx and cs->cy
FixSize(c, maxSize, minTrack) ==
    Max(0, Max(minTrack, IF maxSize < c THEN maxSize ELSE c))

Clamp65535(c) == IF c > 65535 THEN 65535 ELSE c

\* the last step of X11DRV_CreateWindow that is the driver's own: WM_CREATE
SendCreate(s, h, cs) ==
    IF ~cs.createOk THEN [WIN_UnlinkWindow(s, h) EXCEPT !.ret = 0]
    ELSE [s EXCEPT !.ret = 1]

LinkCreated(s, h) ==
    WIN_LinkWindow(s, h, s.wnd[h].parent,
                   s.wnd[h].dwStyle \cap {"WS_CHILD", "WS_MAXIMIZE"} # {"WS_CHILD"})

\* "if (rect.left > rect.right || rect.top > rect.bottom) rect = rectWindow"
ValidOr(rect, rw) ==
    IF rect.left > rect.right \/ rect.top > rect.bottom THEN rw ELSE rect

\* WM_NCCALCSIZE and the WIN_SetRectangles that follows it
SendNcCalcSize(s, h, calc) ==
    WIN_SetRectangles(s, h, s.wnd[h].rectWindow,
                      ValidOr(ClientRectOf(s.wnd[h], s.wnd[h].rectWindow, calc),
                              s.wnd[h].rectWindow))

\* X11DRV_CreateWindow after a WM_NCCREATE that succeeded
AfterNcCreate(s, h, cs) ==
    SendCreate(
        LinkCreated(
            X11DRV_register_window(
                X11DRV_sync_client_window_position(
                    SendNcCalcSize(sync_window_style(s, h), h, cs.calc), h), h), h), h, cs)

\* WM_NCCREATE: its handler may leave another style, and may fail
SendNcCreate(s, h, cs) ==
    IF ~cs.ncOk THEN [s EXCEPT !.ret = 0]
    ELSE AfterNcCreate([s EXCEPT !.wnd[h].dwStyle = cs.ncStyle], h, cs)

MinMaxRect(cs) ==
    MkRect(cs.x, cs.y,
           cs.x + FixSize(Clamp65535(cs.cx), cs.maxSize.x, cs.minTrack.x),
           cs.y + FixSize(Clamp65535(cs.cy), cs.maxSize.y, cs.minTrack.y))

\* "Send the WM_GETMINMAXINFO message and fix the size if needed"
SendGetMinMaxInfo(s, h, cs) ==
    IF "WS_THICKFRAME" \in cs.style \/ cs.style \cap {"WS_POPUP", "WS_CHILD"} = {}
    THEN X11DRV_sync_whole_window_position(
             WIN_SetRectangles(s, h, MinMaxRect(cs), MinMaxRect(cs)), h, FALSE)
    ELSE s

\* the failed: label
CreateFailed_no_teardown(s, h) == [s EXCEPT !.ret = 0]

CreateFailed(s, h) == [X11DRV_DestroyWindow(s, h) EXCEPT !.ret = 0]

\* the WH_CBT hook
CallCbtHook(s, h, cs) ==
    IF cs.hookVeto THEN CreateFailed(s, h)
    ELSE SendNcCreate(SendGetMinMaxInfo(s, h, cs), h, cs)

TSXSync(s) == wine_tsx11_unlock(XSync(wine_tsx11_lock(s)))

AfterClientWindow(s, h, cs) ==
    IF s.ret = 0 THEN CreateFailed(s, h) ELSE CallCbtHook(TSXSync(s), h, cs)

AfterWholeWindow(s, h, cs) ==
    IF s.ret = 0 THEN CreateFailed(s, h)
    ELSE AfterClientWindow(create_client_window(s, h, cs.clientOk), h, cs)

\* X11DRV_CreateWindow once the driver data is allocated and zeroed
CreateWithData(s, h, cs) ==
    IF s.wnd[h].parent = 0 THEN [create_desktop(s, h) EXCEPT !.ret = 1]
    ELSE AfterWholeWindow(create_whole_window(s, h, cs.wholeOk), h, cs)

InitialRect(cs) ==
    MkRect(cs.x, cs.y, cs.x + Clamp65535(cs.cx), cs.y + Clamp65535(cs.cy))

\* cs: the CREATESTRUCT and what the environment answers during the call:
\* whether the allocations and the two XCreateWindow succeed, whether a CBT
\* hook vetoes, the WM_GETMINMAXINFO sizes, the result of WM_NCCREATE and the
\* style its handler leaves, the kind of rectangle WM_NCCALCSIZE answers, the
\* WM_CREATE result
X11DRV_CreateWindow(s, h, cs) ==
    IF ~cs.allocOk THEN [HeapAlloc(s, FALSE) EXCEPT !.ret = 0]
    ELSE CreateWithData(
             WIN_SetRectangles([HeapAlloc(s, TRUE) EXCEPT
                                   !.data[h] = [NoData EXCEPT !.valid = TRUE]],
                               h, InitialRect(cs), InitialRect(cs)),
             h, cs)

----------------------------------------------------------------------------
(* Reparenting and icons *)

XReparentWindow(s, id, parent, x, y) ==
    Log(IF id \in Xids /\ s.xwin[id].exists
        THEN [s EXCEPT !.xwin = RevertFocus(s.xwin,
                  [s.xwin EXCEPT ![id].parent = parent, ![id].x = x, ![id].y = y])]
        ELSE s,
        [XCall("XReparentWindow", id) EXCEPT
            !.arg = parent, !.changes = [NoChanges EXCEPT !.x = x, !.y = y]])

SetWMHintsIfTopLevel(s, h) ==
    IF is_window_top_level(s.wnd[h]) THEN set_wm_hints(s, h) ELSE s

Reparent_hints_before_link(s, h, parent) ==
    wine_tsx11_unlock(
        XReparentWindow(
            sync_window_style(
                wine_tsx11_lock(WIN_LinkWindow(SetWMHintsIfTopLevel(s, h), h, parent, TRUE)), h),
            s.data[h].whole_window, X11DRV_get_client_window(s, parent),
            s.data[h].whole_rect.left, s.data[h].whole_rect.top))

\* the "if (parent != retvalue)" block of X11DRV_SetParent
Reparent(s, h, parent) ==
    wine_tsx11_unlock(
        XReparentWindow(
            sync_window_style(
                wine_tsx11_lock(SetWMHintsIfTopLevel(WIN_LinkWindow(s, h, parent, TRUE), h)), h),
            s.data[h].whole_window, X11DRV_get_client_window(s, parent),
            s.data[h].whole_rect.left, s.data[h].whole_rect.top))

X11DRV_SetParent(s, h, parent) ==
    IF s.wnd[parent].status = "none" THEN [s EXCEPT !.ret = 0]
    ELSE IF parent = s.wnd[h].parent THEN [s EXCEPT !.ret = s.wnd[h].parent]
    ELSE [Reparent(s, h, parent) EXCEPT !.ret = s.wnd[h].parent]

\* SetClassLongW( hwnd, small ? GCL_HICONSM : GCL_HICON, icon )
SetClassLongW(s, h, small, icon) ==
    IF small THEN [s EXCEPT !.cls[s.wnd[h].class].hIconSm = icon,
                            !.ret = s.cls[s.wnd[h].class].hIconSm]
    ELSE [s EXCEPT !.cls[s.wnd[h].class].hIcon = icon,
                   !.ret = s.cls[s.wnd[h].class].hIcon]

UpdateIconHints_fresh_hints(s, h) ==
    IF "WS_EX_MANAGED" \notin s.wnd[h].dwExStyle THEN s
    ELSE wine_tsx11_unlock(
             XSetWMHints(
                 wine_tsx11_lock(
                     set_icon_hints(
                         [wine_tsx11_unlock(
                              XGetWMHints(wine_tsx11_lock(s), X11DRV_get_whole_window(s, h)))
                             EXCEPT !.hints = NoWMHints],
                         h)),
                 X11DRV_get_whole_window(s, h)))

\* the "if (wndPtr->dwExStyle & WS_EX_MANAGED)" block of X11DRV_SetWindowIcon
UpdateIconHints(s, h) ==
    IF "WS_EX_MANAGED" \notin s.wnd[h].dwExStyle THEN s
    ELSE wine_tsx11_unlock(
             XSetWMHints(
                 wine_tsx11_lock(
                     set_icon_hints(
                         wine_tsx11_unlock(
                             XGetWMHints(wine_tsx11_lock(s), X11DRV_get_whole_window(s, h))),
                         h)),
                 X11DRV_get_whole_window(s, h)))

X11DRV_SetWindowIcon(s, h, icon, small) == UpdateIconHints(SetClassLongW(s, h, small, icon), h)

\* the locked part of X11DRV_SetWindowText
StoreWindowText(s, win, text) ==
    HeapFree(HeapFree(wine_tsx11_unlock(
        XSetText(
            XInternAtom(
                XInternAtom(
                    XSetText(
                        XSetText(wine_tsx11_lock(s), "XStoreName", win, "name", text),
                        "XSetIconName", win, "icon_name", text),
                    "_NET_WM_NAME"),
                "UTF8_STRING"),
            "XChangeProperty", win, "net_wm_name", text))))

\* bufferOk, utf8Ok: whether the two HeapAlloc calls succeed
X11DRV_SetWindowText(s, h, text, bufferOk, utf8Ok) ==
    IF X11DRV_get_whole_window(s, h) = 0 THEN [s EXCEPT !.ret = 1]
    ELSE IF ~bufferOk THEN [HeapAlloc(s, FALSE) EXCEPT !.ret = 0]
    ELSE IF ~utf8Ok THEN [HeapAlloc(HeapAlloc(s, TRUE), FALSE) EXCEPT !.ret = 0]
    ELSE [StoreWindowText(HeapAlloc(HeapAlloc(s, TRUE), TRUE),
                          X11DRV_get_whole_window(s, h), text) EXCEPT !.ret = 1]

RECURSIVE GetAncestor(_, _)
\* GetAncestor( hwnd, GA_ROOT ): the ancestor that is a child of the desktop
GetAncestor(w, h) ==
    IF w[h].parent \in {0, DesktopHwnd, h} THEN h ELSE GetAncestor(w, w[h].parent)

TSXUninstallColormap(s) ==
    wine_tsx11_unlock(Log(wine_tsx11_lock(s), XCall("XUninstallColormap", 0)))

InstallColormapIf(s, private) ==
    IF private THEN Log(s, XCall("XInstallColormap", 0)) ELSE s

FocusIfViewable(s, win, private) ==
    IF IsViewable(s.xwin, win) THEN InstallColormapIf(XSetInputFocus(s, win), private) ELSE s

\* X11DRV_SetFocus from GetAncestor on; top is the top-level ancestor
FocusTopLevel(s, top, private) ==
    IF "WS_EX_MANAGED" \in s.wnd[top].dwExStyle THEN s
    ELSE IF X11DRV_get_whole_window(s, top) = 0 THEN s
    ELSE wine_tsx11_unlock(
             FocusIfViewable(
                 XGetWindowAttributes(wine_tsx11_lock(s), X11DRV_get_whole_window(s, top)),
                 X11DRV_get_whole_window(s, top), private))

\* private: X11DRV_PALETTE_PaletteFlags & X11DRV_PALETTE_PRIVATE
X11DRV_SetFocus(s, hwnd, private) ==
    IF root_window # DefaultRootWindow THEN s
    ELSE IF hwnd = 0 THEN (IF private THEN TSXUninstallColormap(s) ELSE s)
    ELSE FocusTopLevel(s, GetAncestor(s.wnd, hwnd), private)

----------------------------------------------------------------------------
(* The environment: what USER and the application feed the driver *)

\* the answers of one CreateWindow call; the first failure ends the call, so
\* one outcome names the step that fails, if any
Answers(outcome) ==
    [allocOk |-> outcome # "nomem", wholeOk |-> outcome # "nowhole",
     clientOk |-> outcome # "noclient", hookVeto |-> outcome = "veto",
     ncOk |-> outcome # "ncfail", createOk |-> outcome # "createfail"]

Outcomes == {"ok", "nomem", "nowhole", "noclient", "veto", "ncfail", "createfail"}

MinMaxInputs ==
    {[maxSize |-> BigSize, minTrack |-> NoTrack],
     [maxSize |-> [x |-> 1, y |-> 1], minTrack |-> NoTrack],
     [maxSize |-> BigSize, minTrack |-> [x |-> 3, y |-> 3]]}

Live(h) == wnd[h].status = "live"

Wins == Hwnds \ {DesktopHwnd}

RECURSIVE IsAncestor(_, _, _)
\* a is h or an ancestor of h in the logical tree
IsAncestor(w, a, h) ==
    IF h = a THEN TRUE
    ELSE IF h = 0 \/ h = DesktopHwnd THEN FALSE
    ELSE IsAncestor(w, a, w[h].parent)

SetState(s) ==
    /\ wnd' = s.wnd
    /\ cls' = s.cls
    /\ children' = s.children
    /\ data' = s.data
    /\ xwin' = s.xwin
    /\ ctx' = s.ctx
    /\ gdi' = s.gdi
    /\ atoms' = s.atoms
    /\ calls' = s.calls
    /\ ret' = s.ret
    /\ UNCHANGED <<managed_mode, root_window, fn, profile>>

\* every entry point starts a new call log, headed by its own name, the
\* window it is called on and its arguments
Entry(name, h, arg, flag) ==
    [State EXCEPT !.calls = <<[XCall(name, h) EXCEPT !.arg = arg, !.flag = flag]>>]

DesktopRect == MkRect(0, 0, 8, 8)

NoAnswers ==
    [maxSize |-> BigSize, minTrack |-> NoTrack, ncStyle |-> {}, calc |-> "same"]

\* USER keeps the WND of a window whose creation succeeded; a window whose
\* creation failed stays behind until USER destroys it
CreateResult(s, h) ==
    [s EXCEPT !.wnd[h].status = IF s.ret = 1 THEN "live" ELSE "failed"]

\* the first window of the process: the desktop, which has no parent
CreateDesktopWindow ==
    /\ wnd[DesktopHwnd].status = "none"
    /\ LET s0 == [Entry("X11DRV_CreateWindow", DesktopHwnd, 0, FALSE)
                     EXCEPT !.wnd[DesktopHwnd] = [NoWnd EXCEPT !.status = "live"]]
           cs == [x |-> 0, y |-> 0, cx |-> RectWidth(DesktopRect), cy |-> RectHeight(DesktopRect),
                  style |-> {}] @@ Answers("ok") @@ NoAnswers
       IN  SetState(X11DRV_CreateWindow(s0, DesktopHwnd, cs))

CreateWindow ==
    /\ Live(DesktopHwnd)
    /\ \E h \in profile.wins, parent \in profile.parents, owner \in profile.owners \cup {0},
          style \in profile.styles, exStyle \in profile.exStyles, class \in profile.classes,
          rect \in profile.rects, outcome \in profile.outcomes, mm \in profile.minmax,
          toggle \in profile.ncToggles, choice \in profile.calc :
        /\ wnd[h].status = "none"
        /\ \A g \in profile.wins : g < h => wnd[g].status # "none"
        /\ IF parent = 0 THEN TRUE ELSE Live(parent)
        /\ parent = 0 => atoms.inits < MaxContexts
        /\ owner # 0 => Live(owner)
        /\ LET win == [NoWnd EXCEPT !.status = "live", !.parent = parent, !.owner = owner,
                                    !.dwStyle = style, !.dwExStyle = exStyle, !.class = class]
               cs == [x |-> rect.left, y |-> rect.top, cx |-> RectWidth(rect),
                      cy |-> RectHeight(rect), style |-> style,
                      maxSize |-> mm.maxSize, minTrack |-> mm.minTrack,
                      ncStyle |-> SymDiff(style, toggle),
                      calc |-> choice] @@ Answers(outcome)
           IN  SetState(CreateResult(
                   X11DRV_CreateWindow([Entry("X11DRV_CreateWindow", h, 0, FALSE)
                                           EXCEPT !.wnd[h] = win], h, cs), h))

\* USER destroys a window once its children and owned windows are gone;
\* after the driver's part the WND itself is unlinked and freed
DestroyWindow ==
    \E h \in Wins :
        /\ wnd[h].status # "none"
        /\ children[h] = <<>>
        /\ \A g \in Wins : wnd[g].status # "none" => wnd[g].owner # h /\ wnd[g].parent # h
        /\ LET s1 == WIN_UnlinkWindow(
                        X11DRV_DestroyWindow(Entry("X11DRV_DestroyWindow", h, 0, FALSE), h), h)
           IN  SetState([s1 EXCEPT !.wnd[h] = NoWnd])

\* SetWindowPos: USER stores the new rectangles, then the driver pushes the
\* whole window's geometry
SyncWholeWindowPosition ==
    \E h \in Wins, rw \in profile.rects, choice \in profile.calc, zorder \in profile.zorder :
        /\ Live(h)
        /\ LET s0 == WIN_SetRectangles(
                        Entry("X11DRV_sync_whole_window_position", h, 0, zorder),
                        h, rw, ClientRectOf(wnd[h], rw, choice))
           IN  SetState(X11DRV_sync_whole_window_position(s0, h, zorder))

SyncClientWindowPosition ==
    \E h \in Wins :
        /\ Live(h)
        /\ SetState(X11DRV_sync_client_window_position(
                        Entry("X11DRV_sync_client_window_position", h, 0, FALSE), h))

\* WINPOS_MinMaximize sets or clears WS_MINIMIZE, then the driver follows
SetIconicState ==
    \E h \in Wins, minimize \in profile.minimize :
        /\ Live(h)
        /\ LET s0 == [Entry("X11DRV_set_iconic_state", h, 0, minimize) EXCEPT !.wnd[h].dwStyle =
                         IF minimize THEN @ \cup {"WS_MINIMIZE"} ELSE @ \ {"WS_MINIMIZE"}]
           IN  SetState([X11DRV_set_iconic_state(s0, h) EXCEPT !.ret = 0])

\* ShowWindow of USER: the WS_VISIBLE bit
ShowWindow ==
    \E h \in Wins, visible \in profile.visible :
        /\ Live(h)
        /\ SetState([Entry("ShowWindow", h, 0, visible) EXCEPT !.ret = 0, !.wnd[h].dwStyle =
                        IF visible THEN @ \cup {"WS_VISIBLE"} ELSE @ \ {"WS_VISIBLE"}])

SetParent ==
    \E h \in Wins, parent \in profile.parents :
        /\ Live(h)
        /\ Live(parent)
        /\ ~IsAncestor(wnd, h, parent)
        /\ SetState(X11DRV_SetParent(Entry("X11DRV_SetParent", h, parent, FALSE), h, parent))

SetWindowIcon ==
    \E h \in Wins, icon \in profile.icons, small \in profile.small :
        /\ Live(h)
        /\ SetState(X11DRV_SetWindowIcon(Entry("X11DRV_SetWindowIcon", h, icon, small),
                                         h, icon, small))

SetWindowText ==
    \E h \in Hwnds, text \in {1}, bufferOk \in BOOLEAN, utf8Ok \in BOOLEAN :
        /\ Live(h)
        /\ SetState(X11DRV_SetWindowText(Entry("X11DRV_SetWindowText", h, text, bufferOk /\ utf8Ok),
                                         h, text, bufferOk, utf8Ok))

SetFocus ==
    \E h \in Hwnds \cup {0}, private \in BOOLEAN :
        /\ h # 0 => Live(h)
        /\ SetState([X11DRV_SetFocus(Entry("X11DRV_SetFocus", h, 0, private), h, private)
                        EXCEPT !.ret = 0])

Next ==
    \/ CreateDesktopWindow
    \/ CreateWindow
    \/ DestroyWindow
    \/ SyncWholeWindowPosition
    \/ SyncClientWindowPosition
    \/ SetIconicState
    \/ ShowWindow
    \/ SetParent
    \/ SetWindowIcon

\* every entry point of the driver
NextDriver ==
    \/ Next
    \/ SetWindowText
    \/ SetFocus

NoFn ==
    [kind |-> "idle", stage |-> "idle", win |-> NoWnd, rect |-> ZeroRect,
     x_rect |-> ZeroRect, w_rect |-> ZeroRect, managed |-> FALSE, is_managed |-> FALSE,
     clamped |-> FALSE]

\* before the first CreateWindow: no window, no driver data, no atoms
InitProcess ==
    /\ wnd = [h \in Hwnds |-> NoWnd]
    /\ cls = [c \in Classes |-> [hIcon |-> 0, hIconSm |-> 0]]
    /\ children = [h \in Hwnds |-> <<>>]
    /\ data = [h \in Hwnds |-> NoData]
    /\ xwin = [i \in Xids |-> NoXWin]
    /\ ctx = [i \in Xids |-> NoContext]
    /\ gdi = {}
    /\ atoms = NoAtoms
    /\ calls = <<>>
    /\ ret = 0

----------------------------------------------------------------------------
(* Input profiles *)

UnitRect == MkRect(0, 0, 4, 5)

GeometryProfile ==
    [wins |-> {2}, parents |-> {DesktopHwnd}, owners |-> {},
     styles |-> {{}, WS_CAPTION}, exStyles |-> {{}}, classes |-> {1},
     rects |-> {MkRect(0, 0, 4, 5), MkRect(0, 0, 4, 0), MkRect(1, 1, 1, 3),
                MkRect(1, 1, 1, 0)},
     outcomes |-> {"ok"}, minmax |-> {[maxSize |-> BigSize, minTrack |-> NoTrack]},
     ncToggles |-> {{}}, calc |-> {"inner", "empty"}, zorder |-> {FALSE},
     minimize |-> BOOLEAN, visible |-> {TRUE}, icons |-> {0}, small |-> {FALSE}]

InitGeometry ==
    /\ InitProcess
    /\ managed_mode \in BOOLEAN
    /\ root_window = DefaultRootWindow
    /\ fn = NoFn
    /\ profile = GeometryProfile

SpecGeometry == InitGeometry /\ [][Next]_vars

\* siblings under the desktop that are shown and hidden, synchronised with
\* their z-order
ZOrderProfile ==
    [wins |-> 2..(MaxSiblings + 1), parents |-> {DesktopHwnd}, owners |-> {},
     styles |-> {{}}, exStyles |-> {{}}, classes |-> {1},
     rects |-> {UnitRect},
     outcomes |-> {"ok"}, minmax |-> {[maxSize |-> BigSize, minTrack |-> NoTrack]},
     ncToggles |-> {{}}, calc |-> {"same"}, zorder |-> {TRUE},
     minimize |-> {FALSE}, visible |-> BOOLEAN, icons |-> {0}, small |-> {FALSE}]

InitZOrder ==
    /\ InitProcess
    /\ managed_mode = FALSE
    /\ root_window = DefaultRootWindow
    /\ fn = NoFn
    /\ profile = ZOrderProfile

\* the operations that make, show, hide, restack and drop siblings
NextZOrder ==
    \/ CreateDesktopWindow
    \/ CreateWindow
    \/ DestroyWindow
    \/ ShowWindow
    \/ SyncWholeWindowPosition

SpecZOrder == InitZOrder /\ [][NextZOrder]_vars

DialogRect == MkRect(10, 10, 210, 110)

\* one top-level window with or without a fixed dialog frame
DialogProfile ==
    [wins |-> {2}, parents |-> {DesktopHwnd}, owners |-> {},
     styles |-> {{"WS_DLGFRAME"}, WS_CAPTION, WS_CAPTION \cup {"WS_POPUP"},
                 WS_CAPTION \cup {"WS_THICKFRAME"}},
     exStyles |-> {{}, {"WS_EX_DLGMODALFRAME"}}, classes |-> {1},
     rects |-> {DialogRect, MkRect(0, 0, 100, 50)},
     outcomes |-> {"ok", "ncfail"}, minmax |-> {[maxSize |-> BigSize, minTrack |-> NoTrack]},
     ncToggles |-> {{}}, calc |-> {"inner"}, zorder |-> {FALSE},
     minimize |-> BOOLEAN, visible |-> {TRUE}, icons |-> {0}, small |-> {FALSE}]

InitDialog ==
    /\ InitProcess
    /\ managed_mode \in BOOLEAN
    /\ root_window = DefaultRootWindow
    /\ fn = NoFn
    /\ profile = DialogProfile

SpecDialog == InitDialog /\ [][Next]_vars

\* two windows of one class, managed or not, reparented, with large and
\* small class icons set and cleared
IconProfile ==
    [wins |-> {2, 3}, parents |-> {DesktopHwnd, 2}, owners |-> {},
     styles |-> {WS_CAPTION}, exStyles |-> {{}}, classes |-> {1},
     rects |-> {UnitRect},
     outcomes |-> {"ok"}, minmax |-> {[maxSize |-> BigSize, minTrack |-> NoTrack]},
     ncToggles |-> {{}}, calc |-> {"same"}, zorder |-> {FALSE},
     minimize |-> {FALSE}, visible |-> {TRUE}, icons |-> {0, 7}, small |-> BOOLEAN]

InitIcons ==
    /\ InitProcess
    /\ managed_mode = TRUE
    /\ root_window = DefaultRootWindow
    /\ fn = NoFn
    /\ profile = IconProfile

\* the operations that create, recompute or drop the icon hints
NextIcons ==
    \/ CreateDesktopWindow
    \/ CreateWindow
    \/ DestroyWindow
    \/ SetParent
    \/ SetWindowIcon

SpecIcons == InitIcons /\ [][NextIcons]_vars

\* windows whose creation can fail at every step, with and without a window
\* manager, given icons, reparented and destroyed
LifecycleProfile ==
    [wins |-> {2, 3}, parents |-> {DesktopHwnd, 2}, owners |-> {},
     styles |-> {WS_CAPTION}, exStyles |-> {{}}, classes |-> {1},
     rects |-> {UnitRect},
     outcomes |-> Outcomes, minmax |-> {[maxSize |-> BigSize, minTrack |-> NoTrack]},
     ncToggles |-> {{}}, calc |-> {"same"}, zorder |-> {FALSE},
     minimize |-> {FALSE}, visible |-> {TRUE}, icons |-> {0, 7}, small |-> {FALSE}]

InitLifecycle ==
    /\ InitProcess
    /\ managed_mode \in BOOLEAN
    /\ root_window = DefaultRootWindow
    /\ fn = NoFn
    /\ profile = LifecycleProfile

SpecLifecycle == InitLifecycle /\ [][NextIcons]_vars

\* windows created under the desktop and without parent
ParentlessProfile ==
    [wins |-> {2, 3}, parents |-> {0, DesktopHwnd}, owners |-> {},
     styles |-> {WS_CAPTION}, exStyles |-> {{}}, classes |-> {1},
     rects |-> {UnitRect},
     outcomes |-> {"ok"}, minmax |-> {[maxSize |-> BigSize, minTrack |-> NoTrack]},
     ncToggles |-> {{}}, calc |-> {"same"}, zorder |-> {FALSE},
     minimize |-> {FALSE}, visible |-> {TRUE}, icons |-> {0}, small |-> {FALSE}]

InitParentless ==
    /\ InitProcess
    /\ managed_mode \in BOOLEAN
    /\ root_window = DefaultRootWindow
    /\ fn = NoFn
    /\ profile = ParentlessProfile

NextParentless ==
    \/ CreateDesktopWindow
    \/ CreateWindow
    \/ DestroyWindow
    \/ SetWindowText

SpecParentless == InitParentless /\ [][NextParentless]_vars

\* windows with and without caption under the desktop and under each other,
\* whose WM_NCCREATE handler may add a thick frame
StyleProfile ==
    [wins |-> {2, 3}, parents |-> {DesktopHwnd, 2}, owners |-> {},
     styles |-> {{}, WS_CAPTION}, exStyles |-> {{}}, classes |-> {1},
     rects |-> {UnitRect},
     outcomes |-> {"ok", "ncfail"},
     minmax |-> {[maxSize |-> BigSize, minTrack |-> NoTrack]},
     ncToggles |-> {{}, {"WS_THICKFRAME"}}, calc |-> {"same"}, zorder |-> {FALSE},
     minimize |-> {FALSE}, visible |-> {TRUE}, icons |-> {0}, small |-> {FALSE}]

InitStyles ==
    /\ InitProcess
    /\ managed_mode \in BOOLEAN
    /\ root_window = DefaultRootWindow
    /\ fn = NoFn
    /\ profile = StyleProfile

\* the operations that evaluate the attributes of the whole window
NextStyles ==
    \/ CreateDesktopWindow
    \/ CreateWindow
    \/ DestroyWindow
    \/ SetParent

SpecStyles == InitStyles /\ [][NextStyles]_vars

\* one window on which every entry point is called
DriverProfile ==
    [wins |-> {2}, parents |-> {DesktopHwnd}, owners |-> {},
     styles |-> {WS_CAPTION}, exStyles |-> {{}}, classes |-> {1},
     rects |-> {UnitRect, MkRect(1, 1, 1, 3)},
     outcomes |-> {"ok", "noclient"},
     minmax |-> {[maxSize |-> BigSize, minTrack |-> NoTrack]},
     ncToggles |-> {{}}, calc |-> {"inner"}, zorder |-> {FALSE},
     minimize |-> BOOLEAN, visible |-> {TRUE}, icons |-> {0, 7}, small |-> {FALSE}]

\* two windows without window manager, one reparented into the other
ReparentProfile ==
    [wins |-> {2, 3}, parents |-> {DesktopHwnd, 2}, owners |-> {},
     styles |-> {WS_CAPTION}, exStyles |-> {{}}, classes |-> {1},
     rects |-> {UnitRect},
     outcomes |-> {"ok"}, minmax |-> {[maxSize |-> BigSize, minTrack |-> NoTrack]},
     ncToggles |-> {{}}, calc |-> {"same"}, zorder |-> {FALSE},
     minimize |-> {TRUE}, visible |-> {TRUE}, icons |-> {0}, small |-> {FALSE}]

InitDriver ==
    /\ InitProcess
    /\ root_window = DefaultRootWindow
    /\ fn = NoFn
    /\ \/ profile = DriverProfile /\ managed_mode \in BOOLEAN
       \/ profile = ReparentProfile /\ managed_mode = FALSE

SpecDriver == InitDriver /\ [][NextDriver]_vars

----------------------------------------------------------------------------
(* Geometry synchronisation: mapping order and native sizes *)

\* where in a call log the calls of one name on one X window stand
CallsOn(log, name, id) == {i \in DOMAIN log : log[i].call = name /\ log[i].win = id}

Reconfigures == {"XConfigureWindow", "XReconfigureWMWindow"}

\* the log is that of entry point name called on window h
EnteredOn(log, name, h) == log # <<>> /\ log[1].call = name /\ log[1].win = h

\* the client rectangle relative to the whole window, as the sync computes it
PeerRelativeClientRect(h) ==
    OffsetRect(wnd[h].rectClient, 0 - data[h].whole_rect.left, 0 - data[h].whole_rect.top)

\* C1: in one X11DRV_sync_client_window_position on a window that is not
\* minimized, a client rectangle going from non-empty to empty has the client
\* window unmapped before the XConfigureWindow of that sync; one going from
\* empty to non-empty has it mapped after the XConfigureWindow; no map stands
\* before and no unmap stands after the XConfigureWindow of the sync.
MapUnmapOrder ==
    [][\A h \in Wins :
        ( /\ EnteredOn(calls', "X11DRV_sync_client_window_position", h)
          /\ wnd[h].status = "live"
          /\ "WS_MINIMIZE" \notin wnd[h].dwStyle )
        => /\ ( /\ ~IsRectEmpty(data[h].client_rect)
                /\ IsRectEmpty(PeerRelativeClientRect(h)) )
              => /\ CallsOn(calls', "XConfigureWindow", data[h].client_window) # {}
                 /\ CallsOn(calls', "XUnmapWindow", data[h].client_window) # {}
                 /\ ~xwin'[data[h].client_window].mapped
           /\ ( /\ IsRectEmpty(data[h].client_rect)
                /\ ~IsRectEmpty(PeerRelativeClientRect(h)) )
              => /\ CallsOn(calls', "XConfigureWindow", data[h].client_window) # {}
                 /\ CallsOn(calls', "XMapWindow", data[h].client_window) # {}
                 /\ xwin'[data[h].client_window].mapped
           /\ \A c \in CallsOn(calls', "XConfigureWindow", data[h].client_window) :
                 /\ \A u \in CallsOn(calls', "XUnmapWindow", data[h].client_window) : u < c
                 /\ \A m \in CallsOn(calls', "XMapWindow", data[h].client_window) : c < m
      ]_vars

\* a client sync has unmapped a collapsed client window, then reconfigured it
UnmappedBeforeReconfigure ==
    \E h \in Wins :
        /\ EnteredOn(calls, "X11DRV_sync_client_window_position", h)
        /\ wnd[h].status = "live"
        /\ "WS_MINIMIZE" \notin wnd[h].dwStyle
        /\ IsRectEmpty(data[h].client_rect)
        /\ \E u \in CallsOn(calls, "XUnmapWindow", data[h].client_window) :
              \E c \in CallsOn(calls, "XConfigureWindow", data[h].client_window) : u < c

\* the sizes a reconfigure request carries are at least 1
SizesAtLeastOne(c) ==
    /\ "CWWidth" \in c.changes.mask => c.changes.width >= 1
    /\ "CWHeight" \in c.changes.mask => c.changes.height >= 1

\* C2 as written: when the rectangle a whole-window or client-window sync is
\* given has width 0 or height 0, every width and every height of the change
\* set it pushes is at least 1.
ZeroSizedRectPushesAtLeastOne ==
    \A h \in Wins :
        ( \/ /\ EnteredOn(calls, "X11DRV_sync_whole_window_position", h)
             /\ (RectWidth(wnd[h].rectWindow) = 0 \/ RectHeight(wnd[h].rectWindow) = 0)
          \/ /\ EnteredOn(calls, "X11DRV_sync_client_window_position", h)
             /\ (RectWidth(wnd[h].rectClient) = 0 \/ RectHeight(wnd[h].rectClient) = 0) )
        => \A i \in DOMAIN calls :
              calls[i].call \in Reconfigures => SizesAtLeastOne(calls[i])

\* C3 as written: every XCreateWindow and every reconfigure of a whole or
\* client window carries a width and a height of at least 1, for every
\* rectangle, of negative width or height too, managed window or not.
NativeSizesAtLeastOne ==
    \A i \in DOMAIN calls :
        /\ calls[i].call = "XCreateWindow"
              => (calls[i].changes.width >= 1 /\ calls[i].changes.height >= 1)
        /\ calls[i].call \in Reconfigures => SizesAtLeastOne(calls[i])

----------------------------------------------------------------------------
(* Z-order placement *)

\* the places before h in its parent's list of children that hold a visible window
VisiblePredecessors(h) ==
    {i \in 1..(IndexOf(children[wnd[h].parent], h, 1) - 1) :
        "WS_VISIBLE" \in wnd[children[wnd[h].parent][i]].dwStyle}

\* the nearest visible sibling linked before h
NearestVisiblePredecessor(h) ==
    children[wnd[h].parent][CHOOSE i \in VisiblePredecessors(h) :
                                \A j \in VisiblePredecessors(h) : j <= i]

\* the reconfigure requests of the log on the whole window of h that carry a
\* stacking mode
StackRequests(h) ==
    {i \in DOMAIN calls : /\ calls[i].call \in Reconfigures
                          /\ calls[i].win = data[h].whole_window
                          /\ "CWStackMode" \in calls[i].changes.mask}

\* C4: X11DRV_sync_whole_window_position with z-order requested walks the
\* siblings back from the window and skips those that are not visible: with
\* no visible sibling before the window the request is Above with no sibling,
\* otherwise it is Below the whole window of the nearest visible sibling
\* before it.
ZOrderSkipsInvisible ==
    \A h \in Wins :
        ( /\ EnteredOn(calls, "X11DRV_sync_whole_window_position", h)
          /\ calls[1].flag
          /\ Live(h) )
        => /\ StackRequests(h) # {}
           /\ \A i \in StackRequests(h) :
                 IF VisiblePredecessors(h) = {}
                 THEN /\ calls[i].changes.stack_mode = "Above"
                      /\ "CWSibling" \notin calls[i].changes.mask
                 ELSE /\ calls[i].changes.stack_mode = "Below"
                      /\ "CWSibling" \in calls[i].changes.mask
                      /\ calls[i].changes.sibling
                            = data[NearestVisiblePredecessor(h)].whole_window

\* siblings A visible, B invisible, C: the sync of C asked for a place below
\* the whole window of A
PlacedBelowSkippingInvisible ==
    \E a, b, c \in Wins :
        /\ children[DesktopHwnd] = <<a, b, c>>
        /\ Live(a) /\ Live(b) /\ Live(c)
        /\ "WS_VISIBLE" \in wnd[a].dwStyle
        /\ "WS_VISIBLE" \notin wnd[b].dwStyle
        /\ EnteredOn(calls, "X11DRV_sync_whole_window_position", c)
        /\ calls[1].flag
        /\ \E i \in StackRequests(c) :
              /\ calls[i].changes.stack_mode = "Below"
              /\ calls[i].changes.sibling = data[a].whole_window
              /\ data[a].whole_window # data[b].whole_window

----------------------------------------------------------------------------
(* Icon hints *)

\* the icon flags the whole window of h advertises
AdvertisedIconFlags(xw, id) == xw[id].wm_hints.flags \cap IconFlags

\* X11DRV_SetWindowIcon has just run on h, whose managed bit is set
IconSetOn(h) ==
    /\ EnteredOn(calls', "X11DRV_SetWindowIcon", h)
    /\ Live(h)
    /\ "WS_EX_MANAGED" \in wnd[h].dwExStyle

\* the window with an icon window before the call has none after it, the icon
\* window is destroyed and the pixmap and the mask are what is advertised
SurrogateReplacedByPixmap(h) ==
    /\ data'[h].icon_window = 0
    /\ ~xwin'[data[h].icon_window].exists
    /\ data'[h].hWMIconBitmap \in gdi'
    /\ data'[h].hWMIconMask \in gdi'
    /\ AdvertisedIconFlags(xwin', data[h].whole_window) = {"IconPixmapHint", "IconMaskHint"}

\* the window that held icon bitmaps before the call has an icon window after
\* it, the icon window is what is advertised and the bitmaps are deleted
PixmapReplacedBySurrogate(h) ==
    /\ data'[h].icon_window # 0
    /\ xwin'[data'[h].icon_window].exists
    /\ xwin'[data[h].whole_window].wm_hints.icon_window = data'[h].icon_window
    /\ AdvertisedIconFlags(xwin', data[h].whole_window) = {"IconWindowHint"}
    /\ data'[h].hWMIconBitmap = 0
    /\ data'[h].hWMIconMask = 0
    /\ data[h].hWMIconBitmap \notin gdi'
    /\ data[h].hWMIconMask \notin gdi'

\* C5 as written: X11DRV_SetWindowIcon with an icon on a managed window that
\* has an icon window destroys the icon window and advertises exactly the
\* pixmap and the mask; X11DRV_SetWindowIcon with no icon on a managed window
\* that advertises a pixmap brings the icon window back, advertises exactly
\* the icon window and deletes the bitmaps; for the large and the small icon.
IconToggle ==
    [][\A h \in Wins :
        IconSetOn(h)
        => /\ (calls'[1].arg # 0 /\ data[h].icon_window # 0) => SurrogateReplacedByPixmap(h)
           /\ (calls'[1].arg = 0 /\ data[h].hWMIconBitmap # 0) => PixmapReplacedBySurrogate(h)
      ]_vars

\* C5, for the large icon: X11DRV_SetWindowIcon of the large icon (small is
\* FALSE) with an icon on a managed window that has an icon window destroys
\* the icon window and advertises exactly the pixmap and the mask; with no
\* icon on a managed window that advertises a pixmap it brings the icon window
\* back, advertises exactly the icon window and deletes the bitmaps.
LargeIconToggle ==
    [][\A h \in Wins :
        (IconSetOn(h) /\ ~calls'[1].flag)
        => /\ (calls'[1].arg # 0 /\ data[h].icon_window # 0) => SurrogateReplacedByPixmap(h)
           /\ (calls'[1].arg = 0 /\ data[h].hWMIconBitmap # 0) => PixmapReplacedBySurrogate(h)
      ]_vars

\* the large icon of a managed window was cleared: its bitmaps were deleted
\* and an icon window was created and advertised in their place
IconClearedBackToSurrogate ==
    \E h \in Wins :
        /\ EnteredOn(calls, "X11DRV_SetWindowIcon", h)
        /\ ~calls[1].flag
        /\ calls[1].arg = 0
        /\ Live(h)
        /\ "WS_EX_MANAGED" \in wnd[h].dwExStyle
        /\ \E i \in DOMAIN calls : calls[i].call = "DeleteObject"
        /\ CallsOn(calls, "XCreateWindow", data[h].icon_window) # {}
        /\ data[h].icon_window # 0
        /\ AdvertisedIconFlags(xwin, data[h].whole_window) = {"IconWindowHint"}

\* C10 as written: a window has an icon window iff its managed bit is set and
\* its class has no icon, and a window that advertises an icon pixmap has no
\* icon window.
IconWindowIffManagedWithoutClassIcon ==
    \A h \in Wins :
        Live(h)
        => /\ (data[h].icon_window # 0)
                 <=> ("WS_EX_MANAGED" \in wnd[h].dwExStyle /\ cls[wnd[h].class].hIcon = 0)
           /\ ( /\ data[h].whole_window \in Xids
                /\ "IconPixmapHint" \in AdvertisedIconFlags(xwin, data[h].whole_window) )
              => data[h].icon_window = 0

\* the three icon representations a window can advertise
IconRepresentations == {{}, {"IconWindowHint"}, {"IconPixmapHint", "IconMaskHint"}}

\* C11: the icon flags a whole window advertises are the icon-window flag
\* alone, the pixmap and the mask flag together, or none of the three: the
\* icon-window flag never stands with the pixmap or the mask flag, and the
\* pixmap flag never stands without the mask flag.
OneIconRepresentation ==
    \A h \in Wins :
        (wnd[h].status # "none" /\ data[h].whole_window \in Xids)
        => AdvertisedIconFlags(xwin, data[h].whole_window) \in IconRepresentations

\* a window that advertised a pixmap had its icon cleared and now advertises
\* the icon window alone
RepresentationSwitchedToWindow ==
    \E h \in Wins :
        /\ EnteredOn(calls, "X11DRV_SetWindowIcon", h)
        /\ Live(h)
        /\ \E i \in DOMAIN calls : calls[i].call = "DeleteObject"
        /\ CallsOn(calls, "XSetWMHints", data[h].whole_window) # {}
        /\ AdvertisedIconFlags(xwin, data[h].whole_window) = {"IconWindowHint"}

----------------------------------------------------------------------------
(* Size hints of fixed dialog frames *)

\* the minimum and the maximum size the hints lock the window to
LockedTo(hints, w, h) ==
    /\ {"PMinSize", "PMaxSize"} \subseteq hints.flags
    /\ hints.min_width = w /\ hints.max_width = w
    /\ hints.min_height = h /\ hints.max_height = h

\* a created top-level window with a fixed dialog frame
FixedDialogWindow(h) ==
    /\ Live(h)
    /\ is_window_top_level(wnd[h])
    /\ HAS_DLGFRAME(wnd[h].dwStyle, wnd[h].dwExStyle)

\* C8 as written: the size hints of a top-level window with a fixed dialog
\* frame lock it to the width and the height of its window rectangle R; a
\* window created at (10,10,210,110) is locked to (200,100).
DialogHintsCarryWindowRect ==
    \A h \in Wins :
        FixedDialogWindow(h)
        => /\ LockedTo(xwin[data[h].whole_window].size_hints,
                       RectWidth(wnd[h].rectWindow), RectHeight(wnd[h].rectWindow))
           /\ wnd[h].rectWindow = DialogRect
                 => LockedTo(xwin[data[h].whole_window].size_hints, 200, 100)

\* C8, for the rectangle the hints are taken from: the size hints of a
\* top-level window with a fixed dialog frame lock it to the width and the
\* height of its whole-window rectangle, which is its window rectangle R while
\* the managed bit is clear; a window without the managed bit created at
\* (10,10,210,110) is locked to (200,100).
DialogHintsCarryWholeRect ==
    \A h \in Wins :
        FixedDialogWindow(h)
        => /\ LockedTo(xwin[data[h].whole_window].size_hints,
                       RectWidth(data[h].whole_rect), RectHeight(data[h].whole_rect))
           /\ "WS_EX_MANAGED" \notin wnd[h].dwExStyle
                 => /\ data[h].whole_rect = wnd[h].rectWindow
                    /\ wnd[h].rectWindow = DialogRect
                          => LockedTo(xwin[data[h].whole_window].size_hints, 200, 100)

\* a dialog window without the managed bit was created at (10,10,210,110) and
\* is locked to (200,100)
DialogLockedAtCreation ==
    \E h \in Wins :
        /\ EnteredOn(calls, "X11DRV_CreateWindow", h)
        /\ FixedDialogWindow(h)
        /\ "WS_EX_MANAGED" \notin wnd[h].dwExStyle
        /\ wnd[h].rectWindow = DialogRect
        /\ CallsOn(calls, "XSetWMNormalHints", data[h].whole_window) # {}
        /\ LockedTo(xwin[data[h].whole_window].size_hints, 200, 100)

----------------------------------------------------------------------------
(* The helper functions on their own: the classifier and the two          *)
(* rectangle converters, applied to arguments drawn at the start           *)

ClassifierStyles == SUBSET {"WS_CHILD", "WS_BORDER", "WS_DLGFRAME", "WS_THICKFRAME", "WS_POPUP"}

ClassifierExStyles == SUBSET {"WS_EX_TOOLWINDOW", "WS_EX_TRAYWINDOW", "WS_EX_DLGMODALFRAME"}

FrameStyles == SUBSET {"WS_BORDER", "WS_DLGFRAME", "WS_THICKFRAME"}

FrameExStyles == SUBSET {"WS_EX_DLGMODALFRAME", "WS_EX_MANAGED"}

FnRects == {MkRect(l, t, r, b) : l \in Coords, t \in Coords, r \in Coords, b \in Coords}

FnInputs ==
    {[NoFn EXCEPT !.kind = "classify", !.stage = "input",
                  !.win = [NoWnd EXCEPT !.status = "live", !.parent = p,
                                        !.dwStyle = st, !.dwExStyle = ex]] :
        p \in {DesktopHwnd, 2}, st \in ClassifierStyles, ex \in ClassifierExStyles}
    \cup
    {[NoFn EXCEPT !.kind = "rect", !.stage = "input", !.rect = rc,
                  !.win = [NoWnd EXCEPT !.status = "live", !.parent = DesktopHwnd,
                                        !.dwStyle = st, !.dwExStyle = ex]] :
        rc \in FnRects, st \in FrameStyles, ex \in FrameExStyles}

\* get_window_attributes on the argument window: the managed bit is written
\* back into the window's extended style
FnGetWindowAttributes ==
    /\ fn.kind = "classify"
    /\ fn.stage = "input"
    /\ fn' = [fn EXCEPT !.stage = "done",
                        !.is_managed = is_window_managed(fn.win),
                        !.managed = get_window_attributes(fn.win).managed,
                        !.win.dwExStyle = SetManagedBit(@, get_window_attributes(fn.win).managed)]
    /\ UNCHANGED <<managed_mode, root_window, wnd, cls, children, data, xwin, ctx, gdi,
                   atoms, calls, ret, profile>>

\* whether the converter's managed branch ran into its closing clamp
ClampTriggered(win, rect, unclamped) ==
    /\ "WS_EX_MANAGED" \in win.dwExStyle
    /\ ~IsRectEmpty(rect)
    /\ ClampDegenerate(unclamped) # unclamped

FnWindowToX ==
    /\ fn.kind = "rect"
    /\ fn.stage = "input"
    /\ fn' = [fn EXCEPT !.stage = "x",
                        !.x_rect = X11DRV_window_to_X_rect(fn.win, fn.rect),
                        !.clamped = ClampTriggered(fn.win, fn.rect,
                                                   WindowToXUnclamped(fn.win, fn.rect))]
    /\ UNCHANGED <<managed_mode, root_window, wnd, cls, children, data, xwin, ctx, gdi,
                   atoms, calls, ret, profile>>

FnXToWindow ==
    /\ fn.kind = "rect"
    /\ fn.stage = "x"
    /\ fn' = [fn EXCEPT !.stage = "w",
                        !.w_rect = X11DRV_X_to_window_rect(fn.win, fn.x_rect),
                        !.clamped = @ \/ ClampTriggered(fn.win, fn.x_rect,
                                             AdjustWindowRectEx(fn.x_rect, fn.win.dwStyle,
                                                                fn.win.dwExStyle))]
    /\ UNCHANGED <<managed_mode, root_window, wnd, cls, children, data, xwin, ctx, gdi,
                   atoms, calls, ret, profile>>

NextFn ==
    \/ FnGetWindowAttributes
    \/ FnWindowToX
    \/ FnXToWindow

InitFn ==
    /\ InitProcess
    /\ managed_mode \in BOOLEAN
    /\ root_window \in {DefaultRootWindow, DesktopModeRoot}
    /\ fn \in FnInputs
    /\ profile = GeometryProfile

SpecFn == InitFn /\ [][NextFn]_vars

----------------------------------------------------------------------------
(* Decoration classification *)

FnTopLevel == root_window = DefaultRootWindow /\ fn.win.parent = DesktopHwnd

FnClassified == fn.kind = "classify" /\ fn.stage = "done" /\ managed_mode

FnDecorationBits == fn.win.dwStyle \cap {"WS_BORDER", "WS_DLGFRAME", "WS_THICKFRAME"}

FnNoTrayFlag == "WS_EX_TRAYWINDOW" \notin fn.win.dwExStyle

\* C6: with management enabled, the three windows the classification examples
\* name (the classifier bits they do not name being clear, the bits the
\* classifier does not read being free) come out as stated: a child window
\* with WS_THICKFRAME|WS_CAPTION is not managed; a top-level window whose only
\* decoration style is the full WS_CAPTION is managed; a top-level tool window
\* is not managed, whatever its caption and thick-frame bits.
ClassificationExamples ==
    FnClassified =>
        /\ ( /\ "WS_CHILD" \in fn.win.dwStyle
             /\ FnDecorationBits = WS_CAPTION \cup {"WS_THICKFRAME"}
             /\ FnNoTrayFlag )
           => (~fn.is_managed /\ ~fn.managed /\ "WS_EX_MANAGED" \notin fn.win.dwExStyle)
        /\ ( /\ FnTopLevel
             /\ "WS_CHILD" \notin fn.win.dwStyle
             /\ FnDecorationBits = WS_CAPTION
             /\ fn.win.dwExStyle \cap {"WS_EX_TOOLWINDOW", "WS_EX_TRAYWINDOW"} = {} )
           => (fn.is_managed /\ fn.managed /\ "WS_EX_MANAGED" \in fn.win.dwExStyle)
        /\ ( /\ FnTopLevel
             /\ "WS_CHILD" \notin fn.win.dwStyle
             /\ "WS_EX_TOOLWINDOW" \in fn.win.dwExStyle
             /\ FnNoTrayFlag )
           => (~fn.is_managed /\ ~fn.managed /\ "WS_EX_MANAGED" \notin fn.win.dwExStyle)

\* the classifier has answered for a child window with thick frame and caption
ClassifiedFramedChild ==
    /\ FnClassified
    /\ FnTopLevel
    /\ "WS_CHILD" \in fn.win.dwStyle
    /\ FnDecorationBits = WS_CAPTION \cup {"WS_THICKFRAME"}
    /\ FnNoTrayFlag
    /\ ~fn.managed

\* C7 as written: a child window or a tool window is never classified as
\* managed, whatever the tray flag, the caption and the thick frame are.
ChildAndToolNeverManaged ==
    (FnClassified /\ ( \/ "WS_CHILD" \in fn.win.dwStyle
                       \/ "WS_EX_TOOLWINDOW" \in fn.win.dwExStyle ))
        => ~fn.is_managed

\* C7, amended: a child window or a tool window that does not carry the tray
\* flag is never classified as managed, whatever its caption and thick-frame
\* bits; with the tray flag the classifier answers managed before it looks at
\* the child and tool bits.
ChildAndToolWithoutTrayNeverManaged ==
    FnClassified =>
        /\ ( /\ ( \/ "WS_CHILD" \in fn.win.dwStyle
                   \/ "WS_EX_TOOLWINDOW" \in fn.win.dwExStyle )
             /\ FnNoTrayFlag )
           => (~fn.is_managed /\ ~fn.managed)
        /\ ~FnNoTrayFlag => fn.is_managed

\* the classifier has answered for a captioned tool window without tray flag
ClassifiedCaptionedTool ==
    /\ FnClassified
    /\ FnTopLevel
    /\ "WS_EX_TOOLWINDOW" \in fn.win.dwExStyle
    /\ "WS_CHILD" \notin fn.win.dwStyle
    /\ WS_CAPTION \subseteq fn.win.dwStyle
    /\ FnNoTrayFlag
    /\ ~fn.is_managed

----------------------------------------------------------------------------
(* Coordinate round trip *)

\* C9: for a managed window and a non-empty rectangle R, window_to_X_rect
\* followed by X_to_window_rect gives R back whenever neither call ran into
\* the clamp of degenerate rectangles.
RoundTrip ==
    ( /\ fn.kind = "rect"
      /\ fn.stage = "w"
      /\ "WS_EX_MANAGED" \in fn.win.dwExStyle
      /\ ~IsRectEmpty(fn.rect)
      /\ ~fn.clamped )
        => fn.w_rect = fn.rect

\* a round trip through a real frame: the X rectangle differs from R
RoundTripThroughFrame ==
    /\ fn.kind = "rect"
    /\ fn.stage = "w"
    /\ "WS_EX_MANAGED" \in fn.win.dwExStyle
    /\ WS_CAPTION \subseteq fn.win.dwStyle
    /\ ~IsRectEmpty(fn.rect)
    /\ ~fn.clamped
    /\ fn.x_rect # fn.rect
    /\ fn.w_rect = fn.rect

----------------------------------------------------------------------------
(* The handle registry *)

\* the X windows of logical window h that exist
LivePeers(h) ==
    {i \in {data[h].whole_window, data[h].client_window} \cap Xids : xwin[i].exists}

\* C12: for every window other than the desktop, from the creation of its X
\* windows to their destruction, the registry maps the whole window and the
\* client window to the window's handle, and no entry names a destroyed X
\* window
RegistryMatchesPeers ==
    /\ \A h \in Wins :
           wnd[h].status # "none" =>
               \A i \in LivePeers(h) : XFindContext(ctx, atoms, i) = h
    /\ \A i \in Xids : XFindContext(ctx, atoms, i) # 0 => xwin[i].exists

----------------------------------------------------------------------------
(* The recorded rectangles and the geometry of the X windows *)

\* the X window has the position and size of rectangle r, a size of 0 being 1
HasGeometry(xw, r) ==
    /\ xw.x = r.left
    /\ xw.y = r.top
    /\ xw.width = ZeroToOne(RectWidth(r))
    /\ xw.height = ZeroToOne(RectHeight(r))

\* every window with X windows of its own
Peered == {h \in Wins : wnd[h].status # "none" /\ data[h].whole_window \in Xids}

RecordedRectsArePushed ==
    \A h \in Peered :
        /\ xwin[data[h].whole_window].exists
               => HasGeometry(xwin[data[h].whole_window], data[h].whole_rect)
        /\ (data[h].client_window \in Xids /\ xwin[data[h].client_window].exists)
               => HasGeometry(xwin[data[h].client_window], data[h].client_rect)

\* the recorded rectangles of a window that has driver data change in this
\* step only if the step is a call of one of the named entry points
RectsWrittenIn(names) ==
    \A h \in Wins :
        (/\ data'[h].valid
         /\ \/ data'[h].whole_rect # data[h].whole_rect
            \/ data'[h].client_rect # data[h].client_rect)
        => calls'[1].call \in names

SyncEntryPoints ==
    {"X11DRV_sync_whole_window_position", "X11DRV_sync_client_window_position"}

----------------------------------------------------------------------------
(* Failure during creation *)

\* the log records that are not calls into Xlib
NotXlib == {"wine_tsx11_lock", "wine_tsx11_unlock", "DeleteObject", "HeapAlloc", "HeapFree"}

\* where in a call log the Xlib calls stand; the first record is the entry point
NativeCalls(log) == {i \in DOMAIN log : i > 1 /\ log[i].call \notin NotXlib}

\* the bitmaps some window's driver data owns
OwnedBitmaps == UNION {{data[g].hWMIconBitmap, data[g].hWMIconMask} : g \in Hwnds} \ {0}

\* an XCreateWindow of the log handed out no window
PeerCreationFailed(log) == \E i \in DOMAIN log : log[i].call = "XCreateWindow" /\ log[i].win = 0

AllocationFailed(log) == \E i \in DOMAIN log : log[i].call = "HeapAlloc" /\ ~log[i].flag

\* C14: when the creation of the whole window or of the client window fails,
\* X11DRV_CreateWindow returns failure with the teardown done: the X windows
\* it created are destroyed, no bitmap is left without owner, the driver data
\* is released; when the allocation of the driver data fails it returns
\* failure without any Xlib call
FailedCreationTornDown ==
    \A h \in Wins :
        EnteredOn(calls, "X11DRV_CreateWindow", h) =>
            /\ PeerCreationFailed(calls) =>
                   /\ ret = 0
                   /\ data[h] = NoData
                   /\ \E i \in DOMAIN calls : calls[i].call = "HeapFree"
                   /\ \A i \in DOMAIN calls :
                          (calls[i].call = "XCreateWindow" /\ calls[i].win \in Xids)
                          => ~xwin[calls[i].win].exists
                   /\ \A i \in Xids : ctx[i].hwnd # h
                   /\ gdi \subseteq OwnedBitmaps
            /\ AllocationFailed(calls) =>
                   /\ ret = 0
                   /\ data[h] = NoData
                   /\ NativeCalls(calls) = {}

ClientFailedAfterIconPixmap ==
    \E h \in Wins :
        /\ EnteredOn(calls, "X11DRV_CreateWindow", h)
        /\ PeerCreationFailed(calls)
        /\ \E i \in DOMAIN calls : calls[i].call = "XCreateWindow" /\ calls[i].win \in Xids
        /\ \E i \in DOMAIN calls : calls[i].call = "XDestroyWindow"
        /\ \E i \in DOMAIN calls : calls[i].call = "DeleteObject"
        /\ ret = 0

----------------------------------------------------------------------------
(* The order of the teardown *)

\* every call of A stands before every call of B
Before(A, B) == \A a \in A, b \in B : a < b

CallsNamed(log, name) == {i \in DOMAIN log : log[i].call = name}

\* the calls of a teardown log that unregister the whole and the client window
\* of driver data d, destroy the whole window, unregister and destroy the icon
\* window
Unregisters(log, d) ==
    CallsOn(log, "XDeleteContext", d.whole_window) \cup CallsOn(log, "XDeleteContext", d.client_window)

DestroysWhole(log, d) == CallsOn(log, "XDestroyWindow", d.whole_window)

DestroysIcon(log, d) ==
    IF d.icon_window = 0 THEN {}
    ELSE CallsOn(log, "XDeleteContext", d.icon_window) \cup CallsOn(log, "XDestroyWindow", d.icon_window)

\* the teardown of a window with X windows makes all the calls it is to make
TeardownComplete(log, d) ==
    /\ Cardinality(Unregisters(log, d)) = 2
    /\ Cardinality(DestroysWhole(log, d)) = 1
    /\ d.icon_window # 0 => Cardinality(DestroysIcon(log, d)) = 2
    /\ Cardinality(CallsNamed(log, "DeleteObject"))
           = Cardinality({d.hWMIconBitmap, d.hWMIconMask} \ {0})
    /\ Cardinality(CallsNamed(log, "HeapFree")) = 1

\* this step is X11DRV_DestroyWindow on a window that has X windows
TearsDown(h) ==
    /\ EnteredOn(calls', "X11DRV_DestroyWindow", h)
    /\ data[h].valid
    /\ data[h].whole_window \in Xids

\* C15 as stated: the teardown destroys the icon window and frees the icon
\* bitmaps first, then destroys the whole window, then removes both registry
\* entries, then frees the driver data
TeardownIconFirst ==
    [][\A h \in Wins :
          TearsDown(h) =>
              /\ TeardownComplete(calls', data[h])
              /\ Before(DestroysIcon(calls', data[h]) \cup CallsNamed(calls', "DeleteObject"),
                        DestroysWhole(calls', data[h]))
              /\ Before(DestroysWhole(calls', data[h]), Unregisters(calls', data[h]))
              /\ Before(Unregisters(calls', data[h]), CallsNamed(calls', "HeapFree"))]_vars

\* C15: the teardown removes both registry entries first, then destroys the
\* whole window, then unregisters and destroys the icon window, then frees
\* the icon bitmaps, then frees the driver data
TeardownUnregistersFirst ==
    [][\A h \in Wins :
          TearsDown(h) =>
              /\ TeardownComplete(calls', data[h])
              /\ Before(Unregisters(calls', data[h]), DestroysWhole(calls', data[h]))
              /\ Before(DestroysWhole(calls', data[h]), DestroysIcon(calls', data[h]))
              /\ Before(DestroysIcon(calls', data[h]), CallsNamed(calls', "DeleteObject"))
              /\ Before(CallsNamed(calls', "DeleteObject"), CallsNamed(calls', "HeapFree"))
              /\ Before(Unregisters(calls', data[h]) \cup DestroysWhole(calls', data[h]),
                        CallsNamed(calls', "HeapFree"))]_vars

TornDownWithIconWindow ==
    \E h \in Wins :
        /\ EnteredOn(calls, "X11DRV_DestroyWindow", h)
        /\ Cardinality(CallsNamed(calls, "XDestroyWindow")) = 2
        /\ Cardinality(CallsNamed(calls, "XDeleteContext")) = 3
        /\ CallsNamed(calls, "HeapFree") # {}
        /\ ~data[h].valid

----------------------------------------------------------------------------
(* The display lock *)

\* how many times the lock is held when call i of the log is made
LockDepth(log, i) ==
    Cardinality({j \in 1..(i - 1) : log[j].call = "wine_tsx11_lock"})
        - Cardinality({j \in 1..(i - 1) : log[j].call = "wine_tsx11_unlock"})

----------------------------------------------------------------------------
(* The atoms and the registry context *)

\* C17: the atoms and winContext are set once, by the creation of the first
\* desktop window, and no later call writes them, the creation of a further
\* window without parent included
AtomsInitializedOnce ==
    [][atoms.inits > 0 => atoms' = atoms]_vars

----------------------------------------------------------------------------
(* The managed bit *)

\* the managed bit of window h is what the classifier finds, and the whole
\* window's override-redirect attribute is its negation
ManagedBitMatches(h) ==
    /\ ("WS_EX_MANAGED" \in wnd[h].dwExStyle)
           = (is_window_top_level(wnd[h]) /\ is_window_managed(wnd[h]))
    /\ xwin[data[h].whole_window].attr.override_redirect
           = ("WS_EX_MANAGED" \notin wnd[h].dwExStyle)

\* the last call evaluated the attributes of window h: its creation up to
\* WM_NCCREATE or beyond, or its reparenting
AttributesEvaluated(h) ==
    /\ h \in Peered
    /\ xwin[data[h].whole_window].exists
    /\ \/ EnteredOn(calls, "X11DRV_CreateWindow", h)
       \/ /\ EnteredOn(calls, "X11DRV_SetParent", h)
          /\ CallsOn(calls, "XChangeWindowAttributes", data[h].whole_window) # {}

\* C18: after get_window_attributes has run (at the creation of the whole
\* window, in the style resynchronisation after WM_NCCREATE, at reparenting)
\* the managed bit of the window is set exactly if it is top-level and
\* is_window_managed finds it eligible, and the override-redirect attribute
\* of the whole window is the negation of the bit
ManagedBitFollowsClassifier ==
    \A h \in Wins : AttributesEvaluated(h) => ManagedBitMatches(h)

\* WM_NCCREATE made an unmanaged window eligible, and the resynchronisation
\* cleared override-redirect
BecameManagedInNcCreate ==
    \E h \in Wins :
        /\ AttributesEvaluated(h)
        /\ EnteredOn(calls, "X11DRV_CreateWindow", h)
        /\ CallsOn(calls, "XChangeWindowAttributes", data[h].whole_window) # {}
        /\ "WS_THICKFRAME" \in wnd[h].dwStyle
        /\ ~(WS_CAPTION \subseteq wnd[h].dwStyle)
        /\ "WS_EX_MANAGED" \in wnd[h].dwExStyle
        /\ ~xwin[data[h].whole_window].attr.override_redirect

----------------------------------------------------------------------------
(* The converters on unmanaged windows and empty rectangles *)

\* the converters do nothing to a rectangle of this window
PassedThrough(win, rect) == "WS_EX_MANAGED" \notin win.dwExStyle \/ IsRectEmpty(rect)

\* C19: X11DRV_window_to_X_rect and X11DRV_X_to_window_rect leave the
\* rectangle as it is when the window does not have the managed bit and when
\* the rectangle is empty, its width or height being zero or negative
ConvertersPassThrough ==
    fn.kind = "rect" =>
        /\ (fn.stage \in {"x", "w"} /\ PassedThrough(fn.win, fn.rect)) => fn.x_rect = fn.rect
        /\ (fn.stage = "w" /\ PassedThrough(fn.win, fn.x_rect)) => fn.w_rect = fn.x_rect

EmptyRectThroughFrame ==
    /\ fn.kind = "rect"
    /\ fn.stage = "w"
    /\ "WS_EX_MANAGED" \in fn.win.dwExStyle
    /\ WS_CAPTION \subseteq fn.win.dwStyle
    /\ RectWidth(fn.rect) < 0
    /\ RectHeight(fn.rect) > 0
    /\ fn.w_rect = fn.rect

----------------------------------------------------------------------------
(* The icon bitmaps *)

\* the bitmap handles the driver data of window h holds
BitmapsOf(h) == {data[h].hWMIconBitmap, data[h].hWMIconMask} \ {0}

\* C20: the icon bitmap and mask a window owns are freed exactly once: no
\* DeleteObject is made on a handle that is no longer live, every live
\* bitmap is owned by exactly one window (a replaced pair is freed before the
\* new pair is recorded), and a destroyed window owns none
IconBitmapsFreedOnce ==
    /\ \A i \in CallsNamed(calls, "DeleteObject") : calls[i].flag
    /\ gdi = OwnedBitmaps
    /\ \A g \in Hwnds :
           /\ data[g].hWMIconBitmap # 0 => data[g].hWMIconBitmap # data[g].hWMIconMask
           /\ ~data[g].valid => BitmapsOf(g) = {}
           /\ \A k \in Hwnds \ {g} : BitmapsOf(g) \cap BitmapsOf(k) = {}

DestroyedWithIconBitmaps ==
    \E h \in Wins :
        /\ EnteredOn(calls, "X11DRV_DestroyWindow", h)
        /\ Cardinality(CallsNamed(calls, "DeleteObject")) = 2
        /\ \A i \in CallsNamed(calls, "DeleteObject") : calls[i].flag /\ calls[i].arg \notin gdi
        /\ ~data[h].valid

----------------------------------------------------------------------------
(* Which windows get window-manager hints *)

\* the calls by which set_wm_hints writes on the whole window
HintCalls ==
    {"XSetWMProtocols", "XSetClassHint", "XSetTransientForHint", "XSetWMNormalHints",
     "XChangeProperty_KWM_DOCKWINDOW", "XChangeProperty_KDE_TRAY",
     "XChangeProperty_MWM_HINTS", "XSetWMHints"}

HintCallsOn(log, id) == {i \in DOMAIN log : log[i].call \in HintCalls /\ log[i].win = id}

\* C21: at creation and at reparenting set_wm_hints runs for managed
\* windows only: the call log of the creation or reparenting of a window that
\* is not managed holds no protocol, class, size, decoration or WM hint
\* written on its whole window
NoHintsOnUnmanaged ==
    \A h \in Peered :
        (/\ EnteredOn(calls, "X11DRV_CreateWindow", h) \/ EnteredOn(calls, "X11DRV_SetParent", h)
         /\ "WS_EX_MANAGED" \notin wnd[h].dwExStyle)
        => HintCallsOn(calls, data[h].whole_window) = {}

----------------------------------------------------------------------------
(* The order of the calls of a synchronisation *)

\* top-level and child windows, two rectangles, with and without z-order,
\* moved, resized and reparented
SyncProfile ==
    [wins |-> {2, 3}, parents |-> {DesktopHwnd, 2}, owners |-> {},
     styles |-> {{"WS_DLGFRAME"}}, exStyles |-> {{}}, classes |-> {1},
     rects |-> {UnitRect, MkRect(1, 1, 1, 3)},
     outcomes |-> {"ok"}, minmax |-> {[maxSize |-> BigSize, minTrack |-> NoTrack]},
     ncToggles |-> {{}}, calc |-> {"inner"}, zorder |-> BOOLEAN,
     minimize |-> {FALSE}, visible |-> {TRUE}, icons |-> {0}, small |-> {FALSE}]

InitSync ==
    /\ InitProcess
    /\ managed_mode \in BOOLEAN
    /\ root_window = DefaultRootWindow
    /\ fn = NoFn
    /\ profile = SyncProfile

NextSync ==
    \/ CreateDesktopWindow
    \/ CreateWindow
    \/ DestroyWindow
    \/ SyncWholeWindowPosition
    \/ SyncClientWindowPosition
    \/ SetParent

SpecSync == InitSync /\ [][NextSync]_vars

\* the one reconfigure of a whole-window sync: XReconfigureWMWindow for a
\* top-level window, XConfigureWindow for any other
ReconfigureOf(h) ==
    IF is_window_top_level(wnd[h]) THEN "XReconfigureWMWindow" ELSE "XConfigureWindow"

\* C22: a whole-window sync with a non-empty change set calls XSync once,
\* then set_size_hints (exactly when the window is top-level and the width
\* or the height changed, and with the new size), then the one reconfigure
\* of the whole window: XReconfigureWMWindow for a top-level window,
\* XConfigureWindow for any other; in a client-window sync XSync stands
\* before the reconfigure of the client window
BarrierHintsReconfigure ==
    \A h \in Peered :
        /\ (EnteredOn(calls, "X11DRV_sync_whole_window_position", h) /\ ret # 0) =>
              /\ Cardinality(CallsNamed(calls, "XSync")) = 1
              /\ Cardinality(CallsOn(calls, ReconfigureOf(h), data[h].whole_window)) = 1
              /\ {i \in NativeCalls(calls) : calls[i].call \in Reconfigures}
                     = CallsOn(calls, ReconfigureOf(h), data[h].whole_window)
              /\ Before(CallsNamed(calls, "XSync"),
                        CallsNamed(calls, "XSetWMNormalHints")
                            \cup CallsOn(calls, ReconfigureOf(h), data[h].whole_window))
              /\ Before(CallsNamed(calls, "XSetWMNormalHints"),
                        CallsOn(calls, ReconfigureOf(h), data[h].whole_window))
              /\ \A i \in CallsOn(calls, ReconfigureOf(h), data[h].whole_window) :
                     /\ CallsNamed(calls, "XSetWMNormalHints") # {}
                            <=> (/\ is_window_top_level(wnd[h])
                                 /\ calls[i].changes.mask \cap {"CWWidth", "CWHeight"} # {})
                     /\ CallsNamed(calls, "XSetWMNormalHints")
                            = CallsOn(calls, "XSetWMNormalHints", data[h].whole_window)
                     /\ CallsNamed(calls, "XSetWMNormalHints") # {}
                            => xwin[data[h].whole_window].size_hints
                                   = SizeHintsOf(wnd[h], data[h].whole_rect)
        /\ (EnteredOn(calls, "X11DRV_sync_client_window_position", h) /\ ret # 0) =>
              /\ Cardinality(CallsNamed(calls, "XSync")) = 1
              /\ CallsOn(calls, "XConfigureWindow", data[h].client_window) # {}
              /\ Before(CallsNamed(calls, "XSync"),
                        {i \in NativeCalls(calls) : calls[i].call \in Reconfigures})

\* a top-level dialog was resized: barrier, size hints, reconfigure
TopLevelResizedWithHints ==
    \E h \in Peered :
        /\ EnteredOn(calls, "X11DRV_sync_whole_window_position", h)
        /\ is_window_top_level(wnd[h])
        /\ CallsOn(calls, "XSetWMNormalHints", data[h].whole_window) # {}
        /\ CallsOn(calls, "XReconfigureWMWindow", data[h].whole_window) # {}
        /\ xwin[data[h].whole_window].size_hints.max_width = RectWidth(data[h].whole_rect)
        /\ xwin[data[h].whole_window].width = RectWidth(data[h].whole_rect)

\* a child window was moved or resized by the direct call
ChildReconfiguredDirectly ==
    \E h \in Peered :
        /\ EnteredOn(calls, "X11DRV_sync_whole_window_position", h)
        /\ ~is_window_top_level(wnd[h])
        /\ CallsOn(calls, "XConfigureWindow", data[h].whole_window) # {}
        /\ CallsNamed(calls, "XSync") # {}

----------------------------------------------------------------------------
(* The recorded whole rectangle and the change set *)

\* C23: every X11DRV_sync_whole_window_position leaves in data->whole_rect
\* the rectangle it computed from the window rectangle, whether or not it
\* called the server; it reconfigures the whole window if and only if the
\* computed rectangle differs from the recorded one in position or size or
\* the z-order was asked for
WholeRectRecordedChangesPushed ==
    [][\A h \in Peered :
          EnteredOn(calls', "X11DRV_sync_whole_window_position", h) =>
              /\ data'[h].whole_rect = X11DRV_window_to_X_rect(wnd'[h], wnd'[h].rectWindow)
              /\ CallsOn(calls', ReconfigureOf(h), data[h].whole_window) # {}
                     <=> \/ calls'[1].flag
                         \/ get_window_changes(data[h].whole_rect, data'[h].whole_rect).mask # {}
              /\ CallsOn(calls', ReconfigureOf(h), data[h].whole_window) = {}
                     => NativeCalls(calls') = {}]_vars

\* a sync that found nothing to change: no call, the rectangle recorded
SyncedWithoutChange ==
    \E h \in Peered :
        /\ EnteredOn(calls, "X11DRV_sync_whole_window_position", h)
        /\ ~calls[1].flag
        /\ NativeCalls(calls) = {}
        /\ data[h].whole_rect = X11DRV_window_to_X_rect(wnd[h], wnd[h].rectWindow)
        /\ HasGeometry(xwin[data[h].whole_window], data[h].whole_rect)

----------------------------------------------------------------------------
(* The Motif hints of a top-level window *)

\* the style bits set_wm_hints may look at, and the two box bits next to them
MwmStyleBits ==
    {"WS_BORDER", "WS_DLGFRAME", "WS_THICKFRAME", "WS_SYSMENU", "WS_MINIMIZE", "WS_MAXIMIZE",
     "WS_MINIMIZEBOX", "WS_MAXIMIZEBOX", "WS_POPUP", "WS_CHILD"}

\* one top-level window of every combination of these bits
MwmProfile ==
    [wins |-> {2}, parents |-> {DesktopHwnd}, owners |-> {},
     styles |-> SUBSET MwmStyleBits, exStyles |-> {{}, {"WS_EX_DLGMODALFRAME"}},
     classes |-> {1}, rects |-> {UnitRect},
     outcomes |-> {"ok"}, minmax |-> {[maxSize |-> BigSize, minTrack |-> NoTrack]},
     ncToggles |-> {{}}, calc |-> {"same"}, zorder |-> {FALSE},
     minimize |-> {FALSE}, visible |-> {TRUE}, icons |-> {0}, small |-> {FALSE}]

InitMwm ==
    /\ InitProcess
    /\ managed_mode = FALSE
    /\ root_window = DefaultRootWindow
    /\ fn = NoFn
    /\ profile = MwmProfile

NextMwm ==
    \/ CreateDesktopWindow
    \/ CreateWindow
    \/ DestroyWindow

SpecMwm == InitMwm /\ [][NextMwm]_vars

\* the windows whose creation has just written Motif hints
MwmHinted ==
    {h \in Peered : /\ EnteredOn(calls, "X11DRV_CreateWindow", h)
                    /\ CallsOn(calls, "XChangeProperty_MWM_HINTS", data[h].whole_window) # {}
                    /\ xwin[data[h].whole_window].mwm_hints.set}

\* the functions and the decorations the rule table gives to a style
TableFunctions(style) ==
    (IF WS_CAPTION \subseteq style THEN {"MWM_FUNC_MOVE"} ELSE {})
    \cup (IF "WS_THICKFRAME" \in style THEN {"MWM_FUNC_MOVE", "MWM_FUNC_RESIZE"} ELSE {})
    \cup (IF "WS_MINIMIZEBOX" \in style THEN {"MWM_FUNC_MINIMIZE"} ELSE {})
    \cup (IF "WS_MAXIMIZEBOX" \in style THEN {"MWM_FUNC_MAXIMIZE"} ELSE {})
    \cup (IF "WS_SYSMENU" \in style THEN {"MWM_FUNC_CLOSE"} ELSE {})

TableBoxDecorations(style) ==
    (IF "WS_MINIMIZEBOX" \in style THEN {"MWM_DECOR_MINIMIZE"} ELSE {})
    \cup (IF "WS_MAXIMIZEBOX" \in style THEN {"MWM_DECOR_MAXIMIZE"} ELSE {})
    \cup (IF "WS_SYSMENU" \in style THEN {"MWM_DECOR_MENU"} ELSE {})

\* C24: the Motif hints of a window follow the rule table: a caption allows
\* moving, a thick frame moving and resizing, the minimize box gives the
\* minimize function and decoration, the maximize box the maximize function
\* and decoration, the system menu the close function and the menu
\* decoration, and no other style bit gives any of these functions
MwmFollowsRuleTable ==
    \A h \in MwmHinted :
        /\ xwin[data[h].whole_window].mwm_hints.functions = TableFunctions(wnd[h].dwStyle)
        /\ xwin[data[h].whole_window].mwm_hints.decorations
               \cap {"MWM_DECOR_MINIMIZE", "MWM_DECOR_MAXIMIZE", "MWM_DECOR_MENU"}
               = TableBoxDecorations(wnd[h].dwStyle)

\* what the hints do follow: the functions of the window's style as
\* set_wm_hints computes them
MwmFollowsStyle ==
    \A h \in MwmHinted :
        /\ xwin[data[h].whole_window].mwm_hints.functions
               = MwmFunctions(wnd[h].dwStyle \cap MwmStyleBits)
        /\ xwin[data[h].whole_window].mwm_hints.decorations
               = MwmDecorations(wnd[h].dwStyle \cap MwmStyleBits, wnd[h].dwExStyle)

\* the border part of the decorations written on the whole window of h
BorderDecorations(h) ==
    xwin[data[h].whole_window].mwm_hints.decorations
        \cap {"MWM_DECOR_BORDER", "MWM_DECOR_RESIZEH"}

\* C25 as stated: the border follows the order dialog modal frame, thick
\* frame, plain border, default of a window that is neither popup nor child;
\* a popup or child window with none of the three styles has no border
BorderByThreeStyles ==
    \A h \in MwmHinted :
        BorderDecorations(h) =
            IF "WS_EX_DLGMODALFRAME" \in wnd[h].dwExStyle THEN {"MWM_DECOR_BORDER"}
            ELSE IF "WS_THICKFRAME" \in wnd[h].dwStyle
            THEN {"MWM_DECOR_BORDER", "MWM_DECOR_RESIZEH"}
            ELSE IF "WS_BORDER" \in wnd[h].dwStyle THEN {"MWM_DECOR_BORDER"}
            ELSE IF wnd[h].dwStyle \cap {"WS_CHILD", "WS_POPUP"} = {} THEN {"MWM_DECOR_BORDER"}
            ELSE {}

\* C25: the border follows the order dialog modal frame, thick frame, dialog
\* frame or plain border, default of a window that is neither popup nor
\* child: with the dialog modal frame the border comes without resize
\* handles even next to a thick frame, and a popup or child window has no
\* border only if it has none of the four styles
BorderByPriority ==
    \A h \in MwmHinted :
        BorderDecorations(h) =
            IF "WS_EX_DLGMODALFRAME" \in wnd[h].dwExStyle THEN {"MWM_DECOR_BORDER"}
            ELSE IF "WS_THICKFRAME" \in wnd[h].dwStyle
            THEN {"MWM_DECOR_BORDER", "MWM_DECOR_RESIZEH"}
            ELSE IF wnd[h].dwStyle \cap {"WS_DLGFRAME", "WS_BORDER"} # {}
            THEN {"MWM_DECOR_BORDER"}
            ELSE IF wnd[h].dwStyle \cap {"WS_CHILD", "WS_POPUP"} = {} THEN {"MWM_DECOR_BORDER"}
            ELSE {}

\* a window with dialog modal frame and thick frame: border, no resize handles
ModalThickFrameBordered ==
    \E h \in MwmHinted :
        /\ "WS_EX_DLGMODALFRAME" \in wnd[h].dwExStyle
        /\ "WS_THICKFRAME" \in wnd[h].dwStyle
        /\ BorderDecorations(h) = {"MWM_DECOR_BORDER"}

----------------------------------------------------------------------------
(* Reparenting *)

----------------------------------------------------------------------------
(* Where a new window stands among its siblings *)

\* up to three siblings, top-level or inside window 2, with and without the
\* child and the maximized style
StackingProfile ==
    [wins |-> {2, 3, 4}, parents |-> {DesktopHwnd, 2}, owners |-> {},
     styles |-> {{}, {"WS_CHILD"}, {"WS_CHILD", "WS_MAXIMIZE"}}, exStyles |-> {{}},
     classes |-> {1}, rects |-> {UnitRect},
     outcomes |-> {"ok"}, minmax |-> {[maxSize |-> BigSize, minTrack |-> NoTrack]},
     ncToggles |-> {{}}, calc |-> {"same"}, zorder |-> {FALSE},
     minimize |-> {FALSE}, visible |-> {TRUE}, icons |-> {0}, small |-> {FALSE}]

InitStacking ==
    /\ InitProcess
    /\ managed_mode = FALSE
    /\ root_window = DefaultRootWindow
    /\ fn = NoFn
    /\ profile = StackingProfile

NextStacking ==
    \/ CreateDesktopWindow
    \/ CreateWindow
    \/ DestroyWindow

SpecStacking == InitStacking /\ [][NextStacking]_vars

\* the requests of a log that put window id at the bottom of the X stack
StackedBelow(log, id) ==
    {i \in CallsOn(log, "XConfigureWindow", id) :
        log[i].changes.mask = {"CWStackMode"} /\ log[i].changes.stack_mode = "Below"}

\* the windows whose creation has just succeeded
JustCreated ==
    {h \in Peered : EnteredOn(calls, "X11DRV_CreateWindow", h) /\ data[h].valid /\ ret # 0}

----------------------------------------------------------------------------
(* Owned windows *)

\* window 3 with or without owner 2, top-level or inside window 2
OwnerProfile ==
    [wins |-> {2, 3}, parents |-> {DesktopHwnd, 2}, owners |-> {2},
     styles |-> {{}, WS_CAPTION}, exStyles |-> {{}}, classes |-> {1}, rects |-> {UnitRect},
     outcomes |-> {"ok"}, minmax |-> {[maxSize |-> BigSize, minTrack |-> NoTrack]},
     ncToggles |-> {{}}, calc |-> {"same"}, zorder |-> {FALSE},
     minimize |-> {FALSE}, visible |-> {TRUE}, icons |-> {0}, small |-> {FALSE}]

InitOwner ==
    /\ InitProcess
    /\ managed_mode \in BOOLEAN
    /\ root_window = DefaultRootWindow
    /\ fn = NoFn
    /\ profile = OwnerProfile

SpecOwner == InitOwner /\ [][NextStyles]_vars

\* the windows on which the last call ran set_wm_hints to its end
HintsBuilt ==
    {h \in Peered :
        /\ EnteredOn(calls, "X11DRV_CreateWindow", h) \/ EnteredOn(calls, "X11DRV_SetParent", h)
        /\ xwin[data[h].whole_window].exists
        /\ CallsOn(calls, "XSetWMHints", data[h].whole_window) # {}}

\* C28: a run of set_wm_hints on a window with an owner sets the
\* transient-for hint to the owner's whole window and advertises the owner's
\* whole window as group leader; on a window without owner it writes no
\* transient-for hint and advertises the window's own whole window
OwnerLeadsGroup ==
    \A h \in HintsBuilt :
        /\ "WindowGroupHint" \in xwin[data[h].whole_window].wm_hints.flags
        /\ IF wnd[h].owner # 0
           THEN /\ Cardinality(CallsNamed(calls, "XSetTransientForHint")) = 1
                /\ CallsOn(calls, "XSetTransientForHint", data[h].whole_window) # {}
                /\ xwin[data[h].whole_window].transient_for = data[wnd[h].owner].whole_window
                /\ xwin[data[h].whole_window].wm_hints.window_group
                       = data[wnd[h].owner].whole_window
           ELSE /\ CallsNamed(calls, "XSetTransientForHint") = {}
                /\ xwin[data[h].whole_window].transient_for = 0
                /\ xwin[data[h].whole_window].wm_hints.window_group = data[h].whole_window

\* an owned top-level window and its owner, both with a whole window
OwnedWindowHinted ==
    \E h \in HintsBuilt :
        /\ wnd[h].owner \in Peered
        /\ data[wnd[h].owner].whole_window # data[h].whole_window
        /\ xwin[data[h].whole_window].transient_for = data[wnd[h].owner].whole_window
        /\ xwin[data[h].whole_window].wm_hints.window_group = data[wnd[h].owner].whole_window

----------------------------------------------------------------------------
(* When the client window is mapped *)

\* is_client_window_mapped on the state reached
MappedEligible(h) == "WS_MINIMIZE" \notin wnd[h].dwStyle /\ ~IsRectEmpty(data[h].client_rect)

\* the windows that have a client window
WithClient ==
    {h \in Peered : data[h].client_window \in Xids /\ xwin[data[h].client_window].exists}

\* where a log maps or unmaps window id
MapCalls(log, id) == CallsOn(log, "XMapWindow", id) \cup CallsOn(log, "XUnmapWindow", id)

\* C29: after the creation and any client syncs, whole syncs and changes of
\* the minimized style, each followed by X11DRV_set_iconic_state, the client
\* window is mapped if and only if the window is not minimized and
\* data->client_rect is not empty; the last map or unmap of the client
\* window in a call is a map exactly when the window ends eligible
ClientMappedIffEligible ==
    \A h \in WithClient :
        /\ xwin[data[h].client_window].mapped <=> MappedEligible(h)
        /\ \A i \in MapCalls(calls, data[h].client_window) :
               (\A j \in MapCalls(calls, data[h].client_window) : j <= i)
                   => (calls[i].call = "XMapWindow" <=> MappedEligible(h))

\* a window brought back from the minimized state has its client window mapped
RestoredClientMapped ==
    \E h \in WithClient :
        /\ EnteredOn(calls, "X11DRV_set_iconic_state", h)
        /\ ~calls[1].flag
        /\ CallsOn(calls, "XMapWindow", data[h].client_window) # {}
        /\ xwin[data[h].client_window].mapped
        /\ MappedEligible(h)

----------------------------------------------------------------------------
(* The display lock is given back *)

\* C30: in the call log of every entry point the display lock is released
\* as often as it is taken, nested takings included, also when XCreateWindow
\* of the whole window fails: at the end the lock is not held, and at no
\* point has it been released more often than taken
LockBalanced ==
    /\ LockDepth(calls, Len(calls) + 1) = 0
    /\ \A i \in DOMAIN calls : LockDepth(calls, i) >= 0

\* the creation of a window whose whole window the server refuses: the lock
\* was taken and is free again
WholeCreationFailedUnlocked ==
    \E h \in Wins :
        /\ EnteredOn(calls, "X11DRV_CreateWindow", h)
        /\ \E i \in DOMAIN calls :
               /\ calls[i].call = "XCreateWindow" /\ calls[i].win = 0
               /\ LockDepth(calls, i) = 1
               /\ CallsNamed(calls, "XCreateWindow") = {i}
        /\ LockDepth(calls, Len(calls) + 1) = 0

\* a call with the lock taken twice at once: a nested acquisition
LockTakenNested ==
    \E i \in DOMAIN calls : LockDepth(calls, i) = 2

----------------------------------------------------------------------------
(* What an icon change and a state change leave alone *)

\* the WM hints advertised on the whole window of h
AdvertisedHints(xw, h) == xw[data[h].whole_window].wm_hints

StateFlags == {"StateHint", "IconPositionHint"}

\* two hint records agree on input, group leader and their flags
SameInputAndGroup(old, new) ==
    /\ new.input = old.input
    /\ new.window_group = old.window_group
    /\ new.flags \cap {"InputHint", "WindowGroupHint"} = old.flags \cap {"InputHint", "WindowGroupHint"}

\* two hint records agree on the icon representation
SameIconRepresentation(old, new) ==
    /\ new.icon_window = old.icon_window
    /\ new.icon_pixmap = old.icon_pixmap
    /\ new.icon_mask = old.icon_mask
    /\ new.flags \cap IconFlags = old.flags \cap IconFlags

\* two hint records agree on state and icon position
SameStateAndPosition(old, new) ==
    /\ new.initial_state = old.initial_state
    /\ new.icon_x = old.icon_x
    /\ new.icon_y = old.icon_y
    /\ new.flags \cap StateFlags = old.flags \cap StateFlags

\* C31: X11DRV_SetWindowIcon leaves input, initial state, icon position
\* and group leader of the advertised WM hints, flags and values, as they
\* were; X11DRV_set_iconic_state leaves the icon representation, the input
\* and the group leader as they were, and the icon window and the icon
\* bitmaps of the driver data; X11DRV_SetWindowIcon on a window without the
\* managed bit makes no Xlib call and changes no server window, no driver
\* data and no bitmap
HintsFramed ==
    [][\A h \in Peered :
          /\ EnteredOn(calls', "X11DRV_SetWindowIcon", h) =>
                /\ SameInputAndGroup(AdvertisedHints(xwin, h), AdvertisedHints(xwin', h))
                /\ SameStateAndPosition(AdvertisedHints(xwin, h), AdvertisedHints(xwin', h))
                /\ "WS_EX_MANAGED" \notin wnd[h].dwExStyle =>
                       /\ NativeCalls(calls') = {}
                       /\ xwin' = xwin
                       /\ data' = data
                       /\ gdi' = gdi
          /\ EnteredOn(calls', "X11DRV_set_iconic_state", h) =>
                /\ SameIconRepresentation(AdvertisedHints(xwin, h), AdvertisedHints(xwin', h))
                /\ SameInputAndGroup(AdvertisedHints(xwin, h), AdvertisedHints(xwin', h))
                /\ data' = data
                /\ gdi' = gdi]_vars

\* a minimized managed window was given a class icon: the pixmap is
\* advertised next to the iconic state, the icon position and the group leader
IconSetOnMinimizedWindow ==
    \E h \in Peered :
        /\ EnteredOn(calls, "X11DRV_SetWindowIcon", h)
        /\ "WS_EX_MANAGED" \in wnd[h].dwExStyle
        /\ AdvertisedHints(xwin, h).initial_state = "IconicState"
        /\ AdvertisedHints(xwin, h).window_group = data[h].whole_window
        /\ {"IconPixmapHint", "IconMaskHint", "StateHint", "IconPositionHint",
            "InputHint", "WindowGroupHint"} \subseteq AdvertisedHints(xwin, h).flags
        /\ AdvertisedHints(xwin, h).icon_pixmap # 0

\* the icon of an unmanaged window's class was changed: nothing was called
IconSetOnUnmanagedWindow ==
    \E h \in Peered :
        /\ EnteredOn(calls, "X11DRV_SetWindowIcon", h)
        /\ calls[1].arg # 0
        /\ "WS_EX_MANAGED" \notin wnd[h].dwExStyle
        /\ NativeCalls(calls) = {}

----------------------------------------------------------------------------
(* What a failed creation leaves behind *)

\* C32: when X11DRV_CreateWindow returns failure after the driver data was
\* allocated (an X window could not be created, the WH_CBT hook vetoed,
\* WM_NCCREATE or WM_CREATE was rejected), none of the X windows it created
\* exists any more and the driver data is released; an X11DRV_DestroyWindow
\* that finds no driver data makes no Xlib call
FailedCreationReleasesAll ==
    \A h \in Wins :
        /\ (EnteredOn(calls, "X11DRV_CreateWindow", h) /\ ret = 0 /\ ~AllocationFailed(calls)) =>
               /\ data[h] = NoData
               /\ CallsNamed(calls, "HeapFree") # {}
               /\ \A i \in CallsNamed(calls, "XCreateWindow") :
                      calls[i].win \in Xids => ~xwin[calls[i].win].exists
        /\ (EnteredOn(calls, "X11DRV_DestroyWindow", h) /\ CallsNamed(calls, "HeapFree") = {}) =>
               /\ NativeCalls(calls) = {}
               /\ data[h] = NoData

====
